---- MODULE Spec2Model ----
(***************************************************************************)
(* venv: a command-line front-end that manages a project's Python virtual  *)
(* environment and its requirements.txt manifest.                          *)
(*                                                                         *)
(* Strings are sequences of one-character strings, so that trimming,       *)
(* splitting, formatting and parsing are computed as the code computes     *)
(* them.  The manifest file is the sequence of its characters.             *)
(***************************************************************************)
EXTENDS Naturals, Sequences, FiniteSets, TLC

(***************************************************************************)
(* Strings                                                                 *)
(***************************************************************************)

\* The characters JavaScript's trim() and the regular expression class \s
\* remove, among the characters the model uses.
Whitespace == {" ", "\n", "\t", "\r"}

Digits == {"0", "1", "2", "3", "4", "5", "6", "7", "8", "9"}

Letters ==
    {"a", "b", "c", "d", "e", "f", "g", "h", "i", "j", "k", "l", "m",
     "n", "o", "p", "q", "r", "s", "t", "u", "v", "w", "x", "y", "z",
     "A", "B", "C", "D", "E", "F", "G", "H", "I", "J", "K", "L", "M",
     "N", "O", "P", "Q", "R", "S", "T", "U", "V", "W", "X", "Y", "Z"}

\* The regular expression class \w.
WordChars == Letters \cup Digits \cup {"_"}

RECURSIVE TrimStart(_)
TrimStart(s) ==
    IF s # <<>> /\ Head(s) \in Whitespace THEN TrimStart(Tail(s)) ELSE s

RECURSIVE TrimEnd(_)
TrimEnd(s) ==
    IF s # <<>> /\ s[Len(s)] \in Whitespace
    THEN TrimEnd(SubSeq(s, 1, Len(s) - 1))
    ELSE s

\* String.prototype.trim
Trim(s) == TrimEnd(TrimStart(s))

\* String.prototype.startsWith
StartsWith(s, p) == Len(p) <= Len(s) /\ SubSeq(s, 1, Len(p)) = p

\* The least index i >= from at which sep occurs in s, or 0.
RECURSIVE IndexFrom(_, _, _)
IndexFrom(s, sep, from) ==
    IF from + Len(sep) - 1 > Len(s) THEN 0
    ELSE IF SubSeq(s, from, from + Len(sep) - 1) = sep THEN from
    ELSE IndexFrom(s, sep, from + 1)

\* String.prototype.includes
Includes(s, p) == IndexFrom(s, p, 1) # 0

\* String.prototype.split with a non-empty separator: always at least one
\* piece, empty pieces kept.
RECURSIVE SplitOn(_, _)
SplitOn(s, sep) ==
    LET i == IndexFrom(s, sep, 1)
    IN  IF i = 0 THEN <<s>>
        ELSE <<SubSeq(s, 1, i - 1)>> \o SplitOn(SubSeq(s, i + Len(sep), Len(s)), sep)

\* Array.prototype.join
RECURSIVE JoinWith(_, _)
JoinWith(parts, sep) ==
    IF parts = <<>> THEN <<>>
    ELSE IF Len(parts) = 1 THEN parts[1]
    ELSE parts[1] \o sep \o JoinWith(Tail(parts), sep)

\* The longest prefix of s made of characters of cls.
RECURSIVE Run(_, _)
Run(s, cls) ==
    IF s # <<>> /\ Head(s) \in cls THEN <<Head(s)>> \o Run(Tail(s), cls) ELSE <<>>

\* The longest prefix of s with no character of cls.
RECURSIVE RunUntil(_, _)
RunUntil(s, cls) ==
    IF s # <<>> /\ Head(s) \notin cls THEN <<Head(s)>> \o RunUntil(Tail(s), cls) ELSE <<>>

\* s without its first n characters.
Drop(s, n) == SubSeq(s, n + 1, Len(s))

\* String.prototype.split(/\s+/)
RECURSIVE SplitSpaces(_)
SplitSpaces(s) ==
    LET w == RunUntil(s, Whitespace)
        r == Drop(s, Len(w))
    IN  IF r = <<>> THEN <<w>>
        ELSE <<w>> \o SplitSpaces(Drop(r, Len(Run(r, Whitespace))))

\* An optional value: null or undefined is None.
Some(v) == [ok |-> TRUE, val |-> v]
None == [ok |-> FALSE, val |-> <<>>]

\* A diagnostic: the message of the code that printed it, and the text
\* it got from elsewhere.
Diag(tag, text) == [tag |-> tag, text |-> text]
NoDiag == Diag("", <<>>)

\* A result: ok with a value, or an error.
Ok(v) == [ok |-> TRUE, val |-> v]

(***************************************************************************)
(* Semantic Version model (SemVer of @travvy/utils/misc; its source is not *)
(* part of src/, the model follows sections 3 and 4.1 of the spec)         *)
(***************************************************************************)

DigitValue(c) ==
    CASE c = "0" -> 0 [] c = "1" -> 1 [] c = "2" -> 2 [] c = "3" -> 3
      [] c = "4" -> 4 [] c = "5" -> 5 [] c = "6" -> 6 [] c = "7" -> 7
      [] c = "8" -> 8 [] c = "9" -> 9

DigitChar(n) ==
    CASE n = 0 -> "0" [] n = 1 -> "1" [] n = 2 -> "2" [] n = 3 -> "3"
      [] n = 4 -> "4" [] n = 5 -> "5" [] n = 6 -> "6" [] n = 7 -> "7"
      [] n = 8 -> "8" [] n = 9 -> "9"

\* The number a non-empty string of digits denotes.
RECURSIVE DigitsToNat(_)
DigitsToNat(s) ==
    IF Len(s) = 1 THEN DigitValue(s[1])
    ELSE 10 * DigitsToNat(SubSeq(s, 1, Len(s) - 1)) + DigitValue(s[Len(s)])

\* The decimal numeral of n.
RECURSIVE NatToDigits(_)
NatToDigits(n) ==
    IF n < 10 THEN <<DigitChar(n)>>
    ELSE NatToDigits(n \div 10) \o <<DigitChar(n % 10)>>

IsNumeral(s) == s # <<>> /\ \A i \in 1..Len(s) : s[i] \in Digits

SemVerCreate(major, minor, patch, metadata) ==
    [major |-> major, minor |-> minor, patch |-> patch, metadata |-> metadata]

SemVerErr == [ok |-> FALSE, val |-> SemVerCreate(0, 0, 0, <<>>)]

\* SemVer.parse: D.D.D with an optional +metadata; any other shape fails.
SemVerParse(text) ==
    LET plus  == IndexFrom(text, <<"+">>, 1)
        core  == IF plus = 0 THEN text ELSE SubSeq(text, 1, plus - 1)
        meta  == IF plus = 0 THEN <<>> ELSE Drop(text, plus)
        parts == SplitOn(core, <<".">>)
    IN  IF /\ Len(parts) = 3
           /\ \A i \in 1..3 : IsNumeral(parts[i])
           /\ (plus # 0 => meta # <<>>)
        THEN Ok(SemVerCreate(DigitsToNat(parts[1]), DigitsToNat(parts[2]),
                             DigitsToNat(parts[3]), meta))
        ELSE SemVerErr

\* SemVer.toString: the canonical major.minor.patch.
SemVerToString(v) ==
    NatToDigits(v.major) \o <<".">> \o NatToDigits(v.minor) \o <<".">>
        \o NatToDigits(v.patch)

(***************************************************************************)
(* Manifest Store (requirements.txt)                                       *)
(***************************************************************************)

NL == <<"\n">>
EqEq == <<"=", "=">>

\* A manifest entry.
Requirement(name, version) == [name |-> name, version |-> version]

\* The lines with one "=" between name and version.
RECURSIVE FormatLinesOneEq(_)
FormatLinesOneEq(deps) ==
    IF deps = <<>> THEN <<>>
    ELSE <<Head(deps).name \o <<"=">> \o SemVerToString(Head(deps).version)>>
            \o FormatLinesOneEq(Tail(deps))

\* dependencies.map((dep) => `${dep.name}==${SemVer.toString(dep.version)}`)
RECURSIVE FormatLines(_)
FormatLines(deps) ==
    IF deps = <<>> THEN <<>>
    ELSE <<Head(deps).name \o EqEq \o SemVerToString(Head(deps).version)>>
            \o FormatLines(Tail(deps))

\* The text without the newline at its end.
ManifestTextNoNewline(deps) == Trim(JoinWith(FormatLines(deps), NL))

\* The text writeDependencies hands to writeFile.
ManifestText(deps) == Trim(JoinWith(FormatLines(deps), NL)) \o NL

\* The callback without its check of the version.
ParseLineUnchecked(line) ==
    LET parts == SplitOn(line, EqEq)
    IN  IF parts[1] = <<>> \/ Len(parts) < 2 THEN None
        ELSE IF parts[2] = <<>> THEN None
        ELSE Some(Requirement(parts[1], SemVerParse(parts[2]).val))

\* The callback of getExistingDependencies' map: a Requirement, or null.
ParseLine(line) ==
    LET parts == SplitOn(line, EqEq)
    IN  IF parts[1] = <<>> \/ Len(parts) < 2 THEN None
        ELSE IF parts[2] = <<>> THEN None
        ELSE LET semver == SemVerParse(parts[2])
             IN  IF ~semver.ok THEN None
                 ELSE Some(Requirement(parts[1], semver.val))

\* .map(...).filter((x) => x !== null)
RECURSIVE ParseLines(_)
ParseLines(lines) ==
    IF lines = <<>> THEN <<>>
    ELSE LET r == ParseLine(Head(lines))
         IN  (IF r.ok THEN <<r.val>> ELSE <<>>) \o ParseLines(Tail(lines))

\* What getExistingDependencies returns for a file with this content.
getExistingDependencies(content) == ParseLines(SplitOn(Trim(content), NL))

\* The filter left out: every entry is kept.
KeepAll(deps, pkgName) == deps

\* The filter with its test inverted: it keeps the entries of pkgName.
OnlyName(deps, pkgName) == SelectSeq(deps, LAMBDA dep : dep.name = pkgName)

\* allExistingDependencies.filter((dep) => dep.name !== pkgName)
RECURSIVE WithoutName(_, _)
WithoutName(deps, pkgName) ==
    IF deps = <<>> THEN <<>>
    ELSE (IF Head(deps).name # pkgName THEN <<Head(deps)>> ELSE <<>>)
            \o WithoutName(Tail(deps), pkgName)

\* The entries of a manifest, and their names.
Entries(deps) == {deps[i] : i \in DOMAIN deps}

EntryNames(deps) == {deps[i].name : i \in DOMAIN deps}

\* fs.promises.writeFile opens the file with flag "w", which creates or
\* truncates it, and then writes the text from offset 0 of its own handle;
\* the two are separate file-system operations.
Truncated == <<>>

\* The file after a handle writes data at offset 0: what another handle
\* wrote beyond the end of data in the meantime stays.
WrittenAtStart(cur, data) ==
    IF Len(cur) > Len(data) THEN data \o Drop(cur, Len(data)) ELSE data

(***************************************************************************)
(* Package Specifier Parser                                                *)
(***************************************************************************)

\* The regular expression class [\w.-].
NameChars == WordChars \cup {".", "-"}

\* The regular expression class [\w-].
ScopeChars == WordChars \cup {"-"}

\* The regular expression class [@\s=<>~^].
VersionChars == {"@", "=", "<", ">", "~", "^"} \cup Whitespace

\* What the regular expression .* followed by $ accepts: the rest of the
\* input when it holds no line terminator.
DotStarToEnd(s) == \A i \in 1..Len(s) : s[i] \notin {"\n", "\r"}

\* The scoped pattern with [\w-]+ for the name as well.
ScopedMatchNoDot(s) ==
    LET scope == Run(Drop(s, 1), ScopeChars)
        r1    == Drop(s, 1 + Len(scope))
        name  == Run(Drop(r1, 1), ScopeChars)
        r2    == Drop(r1, 1 + Len(name))
    IN  IF /\ s # <<>> /\ Head(s) = "@"
           /\ scope # <<>>
           /\ r1 # <<>> /\ Head(r1) = "/"
           /\ name # <<>>
           /\ (r2 = <<>> \/ (Head(r2) = "@" /\ DotStarToEnd(Tail(r2))))
        THEN Some(<<"@">> \o scope \o <<"/">> \o name)
        ELSE None

\* /^(@[\w-]+\/[\w.-]+)(?:@.*)?$/, group 1.
ScopedMatch(s) ==
    LET scope == Run(Drop(s, 1), ScopeChars)
        r1    == Drop(s, 1 + Len(scope))
        name  == Run(Drop(r1, 1), NameChars)
        r2    == Drop(r1, 1 + Len(name))
    IN  IF /\ s # <<>> /\ Head(s) = "@"
           /\ scope # <<>>
           /\ r1 # <<>> /\ Head(r1) = "/"
           /\ name # <<>>
           /\ (r2 = <<>> \/ (Head(r2) = "@" /\ DotStarToEnd(Tail(r2))))
        THEN Some(<<"@">> \o scope \o <<"/">> \o name)
        ELSE None

\* The name pattern without "^" in its class of version characters.
NameMatchNoCaret(s) ==
    LET name == Run(s, NameChars)
        r    == Drop(s, Len(name))
    IN  IF /\ name # <<>>
           /\ (r = <<>> \/ (Head(r) \in VersionChars \ {"^"} /\ DotStarToEnd(Tail(r))))
        THEN Some(name)
        ELSE None

\* The name pattern without its anchor at the end.
NameMatchUnanchored(s) ==
    LET name == Run(s, NameChars)
    IN  IF name # <<>> THEN Some(name) ELSE None

\* /^([\w.-]+)(?:[@\s=<>~^].*)?$/, group 1.
NameMatch(s) ==
    LET name == Run(s, NameChars)
        r    == Drop(s, Len(name))
    IN  IF /\ name # <<>>
           /\ (r = <<>> \/ (Head(r) \in VersionChars /\ DotStarToEnd(Tail(r))))
        THEN Some(name)
        ELSE None

\* /^(git\+)?(https?:\/\/[\w.-]+\/[\w.-]+\/[\w.-]+)(\.git)?(@.*)?$/ and the
\* last "/"-separated part of group 2.  The last [\w.-]+ is greedy and takes
\* a ".git" suffix with it; it gives characters back only when the rest
\* would not match otherwise, which never helps.
UrlMatch(s) ==
    LET GitPlus == <<"g", "i", "t", "+">>
        Http    == <<"h", "t", "t", "p">>
        Slashes == <<":", "/", "/">>
        s1   == IF StartsWith(s, GitPlus) THEN Drop(s, 4) ELSE s
        s2   == Drop(s1, 4)
        s3   == IF s2 # <<>> /\ Head(s2) = "s" THEN Tail(s2) ELSE s2
        s4   == Drop(s3, 3)
        host == Run(s4, NameChars)
        s5   == Drop(s4, Len(host))
        org  == Run(Drop(s5, 1), NameChars)
        s6   == Drop(s5, 1 + Len(org))
        repo == Run(Drop(s6, 1), NameChars)
        r    == Drop(s6, 1 + Len(repo))
    IN  IF /\ StartsWith(s1, Http)
           /\ StartsWith(s3, Slashes)
           /\ host # <<>>
           /\ s5 # <<>> /\ Head(s5) = "/"
           /\ org # <<>>
           /\ s6 # <<>> /\ Head(s6) = "/"
           /\ repo # <<>>
           /\ (r = <<>> \/ (Head(r) = "@" /\ DotStarToEnd(Tail(r))))
        THEN Some(repo)
        ELSE None

\* extractPackageName: packageSpec is Some(string), or None for null and
\* undefined.
extractPackageName(packageSpec) ==
    IF ~packageSpec.ok THEN None
    ELSE LET s == Trim(packageSpec.val)
         IN  IF s = <<>> THEN None
             ELSE IF Head(s) = "@" /\ ScopedMatch(s).ok THEN ScopedMatch(s)
             ELSE IF NameMatch(s).ok THEN NameMatch(s)
             ELSE UrlMatch(s)

(***************************************************************************)
(* Bounds and inputs                                                       *)
(***************************************************************************)

\* The package arguments of all the commands of one behaviour, together.
MaxItems == 2

\* The package specifiers a command line is made of: two names and a
\* specifier with no extractable name.
Specifiers == {<<"a">>, <<"b">>, <<"!">>}

\* The sequences of up to n specifiers.
RECURSIVE ItemLists(_)
ItemLists(n) ==
    IF n = 0 THEN {}
    ELSE {<<x>> : x \in Specifiers}
            \cup ItemLists(n - 1)
            \cup {Append(l, x) : l \in ItemLists(n - 1), x \in Specifiers}

\* The commands without a package argument of one behaviour.
MaxCommands == 2

\* positionals.slice(1)[0] when the command line has no package argument.
NoArg == <<>>

\* The lines of a manifest file read on its own.
MaxLines == 3

\* The entries of a manifest written on its own.
MaxDeps == 2

\* The package arguments: specifiers separated by one space.
Args(n) == {JoinWith(l, <<" ">>) : l \in ItemLists(n)}

V100 == <<"1", ".", "0", ".", "0">>
V200 == <<"2", ".", "0", ".", "0">>
V10 == <<"1", ".", "0">>

\* The versions the environment tool can install; the last one is a version
\* number that is not major.minor.patch.
ToolVersions == {V100, V200, V10}

(***************************************************************************)
(* State                                                                   *)
(***************************************************************************)

VARIABLES
    disk,       \* the paths that exist in the project directory
    file,       \* the characters of requirements.txt, when it exists
    env,        \* the packages installed in the environment: {[name, version]}
    phase,      \* "idle" (no command run yet), "running", "exited"
    cmd,        \* the command of the current or last process
    arg,        \* its package argument
    tasks,      \* the per-package tasks of the batch
    exitCode,   \* the exit code of the last process
    lastError,  \* the diagnostic it ended with, "" when none
    reported,   \* the per-package lines of the summary it printed
    history,    \* the commands that ended, oldest first
    itemsLeft,  \* package arguments left to the behaviour
    nReads,     \* manifest reads of the current batch
    nWrites,    \* manifest writes of the current batch
    before,     \* disk, file and env as the current or last process found them
    children,   \* the child processes the current or last process spawned
                \* through withVenv and withVenvGet, in the order of their spawn
    packages,   \* update: the outdated packages it parsed from the report
    initPc,     \* init: the step it awaits
    added,      \* init: the rollback list
    copies,     \* init: the state of each template copy
    created,    \* init: the paths this init brought into existence
    rbIndex,    \* rollback: the index in the list of the path it removes next
    rbCode,     \* rollback: the exit code it was called with
    failedStep, \* init: the step whose failure started the rollback
    fn,         \* a function called on its own: its name
    input,      \* its argument
    returned,   \* whether it has returned
    output      \* what it returned

\* The state of init.
scaffold == <<initPc, added, copies, created, rbIndex, rbCode, failedStep>>

\* The state of a function called on its own.
call == <<fn, input, returned, output>>

\* The state of a batch.
batch == <<tasks, itemsLeft, nReads, nWrites, children, packages>>

vars ==
    <<disk, file, env, phase, cmd, arg, exitCode, lastError, reported,
      history, before, batch, scaffold, call>>

ManifestPath == "requirements.txt"

VenvDir == ".venv"

\* venvPath: the environment marker.
VenvPath == ".venv/bin/activate"

fileExists == ManifestPath \in disk
venvExists == VenvPath \in disk

\* The manifest as a reader finds it now.
Manifest == IF fileExists THEN getExistingDependencies(file) ELSE <<>>

NoVersion == <<>>

\* The version of a package in the environment, NoVersion when not installed.
InstalledVersion(name) ==
    IF \E p \in env : p.name = name
    THEN (CHOOSE p \in env : p.name = name).version
    ELSE NoVersion

EnvWithout(name) == {p \in env : p.name # name}

EnvWith(name, version) == EnvWithout(name) \cup {[name |-> name, version |-> version]}

\* What a process finds when it starts.
Found == [disk |-> disk, file |-> file, env |-> env]

\* No command has run: the state of every variable but disk, file and env.
Fresh ==
    /\ phase = "idle"
    /\ cmd = "none"
    /\ arg = <<>>
    /\ tasks = <<>>
    /\ exitCode = 0
    /\ lastError = NoDiag
    /\ reported = <<>>
    /\ history = <<>>
    /\ itemsLeft = MaxItems
    /\ nReads = 0
    /\ nWrites = 0
    /\ before = Found
    /\ children = <<>>
    /\ packages = <<>>
    /\ initPc = "none"
    /\ added = <<>>
    /\ copies = <<>>
    /\ created = {}
    /\ rbIndex = 0
    /\ rbCode = 0
    /\ failedStep = "none"
    /\ returned = FALSE
    /\ output = <<>>

\* A requirements.txt as a user types it: a version is written with its
\* build metadata.
RECURSIVE TypedLines(_)
TypedLines(deps) ==
    IF deps = <<>> THEN <<>>
    ELSE LET v == Head(deps).version
         IN  <<Head(deps).name \o EqEq \o SemVerToString(v)
                  \o (IF v.metadata = <<>> THEN <<>> ELSE <<"+">> \o v.metadata)>>
                \o TypedLines(Tail(deps))

TypedText(deps) == Trim(JoinWith(TypedLines(deps), NL)) \o NL

\* The manifests a project starts with: empty, one entry, one entry whose
\* version has build metadata, two entries.
PriorManifests ==
    {<<>>,
     <<Requirement(<<"b">>, SemVerCreate(1, 0, 0, <<>>))>>,
     <<Requirement(<<"b">>, SemVerCreate(1, 0, 0, <<"m">>))>>,
     <<Requirement(<<"a">>, SemVerCreate(1, 0, 0, <<>>)),
       Requirement(<<"b">>, SemVerCreate(1, 0, 0, <<>>))>>}

\* No function is called on its own.
NoCall == fn = "none" /\ input = <<>>

\* A project with or without its environment and its manifest file; the
\* environment, when there, holds the packages of the manifest.
Init ==
    /\ \E hasVenv \in BOOLEAN, hasFile \in BOOLEAN :
          disk = (IF hasVenv THEN {VenvDir, VenvPath} ELSE {})
                    \cup (IF hasFile THEN {ManifestPath} ELSE {})
    /\ \E prior \in PriorManifests :
          /\ file = (IF ManifestPath \in disk /\ prior # <<>>
                     THEN TypedText(prior) ELSE <<>>)
          /\ env = (IF VenvPath \in disk
                    THEN {[name |-> prior[i].name, version |-> SemVerToString(prior[i].version)] :
                             i \in DOMAIN prior}
                    ELSE {})
    /\ Fresh
    /\ NoCall

(***************************************************************************)
(* Environment Tool Adapter                                                *)
(***************************************************************************)

\* What a child process leaves behind: its exit code and what it wrote.
Child(code, stdout, stderr) == [code |-> code, stdout |-> stdout, stderr |-> stderr]

ErrorText == <<"E", "R", "R", "O", "R">>

\* `exited with code ${code}`
ExitedWithCode(code) ==
    <<"e", "x", "i", "t", "e", "d", " ", "w", "i", "t", "h", " ",
      "c", "o", "d", "e", " ">> \o NatToDigits(code)

Err(message) == [ok |-> FALSE, val |-> message]

\* execShellGet with no message of its own for an empty stderr.
execShellGetBare(child) ==
    IF child.code = 0 THEN Ok(Trim(child.stdout)) ELSE Err(Trim(child.stderr))

\* execShellGet: ok with the trimmed stdout when the child exits with 0,
\* else an error with the trimmed stderr, or with the exit code when that
\* is empty.
execShellGet(child) ==
    IF child.code = 0 THEN Ok(Trim(child.stdout))
    ELSE Err(IF Trim(child.stderr) # <<>> THEN Trim(child.stderr)
             ELSE ExitedWithCode(child.code))

NoVenvText ==
    <<"N", "o", " ", "v", "i", "r", "t", "u", "a", "l", " ",
      "e", "n", "v", "i", "r", "o", "n", "m", "e", "n", "t", " ",
      "f", "o", "u", "n", "d">>

\* withVenvGet without its check of the marker.
withVenvGetUnchecked(child) == execShellGet(child)

\* withVenvGet, given what the child would leave behind: no child is
\* spawned when the environment marker is missing.
withVenvGet(child) ==
    IF ~venvExists THEN Err(NoVenvText) ELSE execShellGet(child)

\* withVenv, likewise: the exit code, 1 when the marker is missing.
withVenv(child) == IF ~venvExists THEN 1 ELSE child.code

\* The environment tool -----------------------------------------------------

VersionLabel == <<"V", "e", "r", "s", "i", "o", "n", ":">>

\* pip3 show of an installed package prints a key: value block.
ShowText(name, version) ==
    <<"N", "a", "m", "e", ":", " ">> \o name \o NL \o VersionLabel \o <<" ">> \o version

\* pip3 show: fails for a package that is not installed.
PipShow(name) ==
    IF InstalledVersion(name) = NoVersion THEN Child(1, <<>>, ErrorText)
    ELSE Child(0, ShowText(name, InstalledVersion(name)), <<>>)

NotInstalledPhrase ==
    <<"a", "s", " ", "i", "t", " ", "i", "s", " ", "n", "o", "t", " ",
      "i", "n", "s", "t", "a", "l", "l", "e", "d">>

\* pip3 uninstall -y: what the child can leave behind.  For a package that
\* is not installed the tool exits with 0 and words its message with the
\* "not installed" phrase, on stdout or on stderr.
PipUninstall(name) ==
    IF InstalledVersion(name) = NoVersion
    THEN {Child(0, <<"S", "k", "i", "p", " ">> \o NotInstalledPhrase, <<>>),
          Child(0, <<>>, <<"S", "k", "i", "p", " ">> \o NotInstalledPhrase)}
    ELSE {Child(0, <<"O", "K">>, <<>>), Child(1, <<>>, ErrorText)}

\* The version line of the show output, as installOne reads it:
\* .trim().split("\n").find((line) => line.startsWith("Version:"))
\*     ?.split(":")[1]?.trim()
RECURSIVE FindVersionLine(_)
FindVersionLine(lines) ==
    IF lines = <<>> THEN None
    ELSE IF StartsWith(Head(lines), VersionLabel) THEN Some(Head(lines))
    ELSE FindVersionLine(Tail(lines))

PkgVersion(text) ==
    LET line == FindVersionLine(SplitOn(Trim(text), NL))
    IN  IF ~line.ok THEN None
        ELSE LET parts == SplitOn(line.val, <<":">>)
             IN  IF Len(parts) < 2 THEN None ELSE Some(Trim(parts[2]))

(***************************************************************************)
(* Reconciliation Engine: install and uninstall batches                    *)
(***************************************************************************)

\* exec(command) through the adapter: a child of the process, spawned for
\* the task of this index (0: for the command itself).  exited and code are
\* set when the process gets the child's exit event.
Spawned(tool, name, task) ==
    [tool |-> tool, name |-> name, task |-> task, exited |-> FALSE, code |-> 0]

\* The child the task awaits.
ChildOf(task) ==
    CHOOSE k \in DOMAIN children : children[k].task = task /\ ~children[k].exited

\* child.on("exit", (code) => ...)
Exited(k, code) == [children EXCEPT ![k].exited = TRUE, ![k].code = code]

\* `pip3 install`: the tool installs one of its versions and exits with 0,
\* or fails and leaves the environment as it was.
PipInstall(name) ==
    {[code |-> 0, env |-> EnvWith(name, v)] : v \in ToolVersions}
        \cup {[code |-> c, env |-> env] : c \in {1}}

\* A per-package task: installOne or uninstallOne called with pkg.  pc names
\* the operation the task awaits.
Task(pkg, name, pc) ==
    [pkg |-> pkg, name |-> name, pc |-> pc, existing |-> <<>>, version |-> NoVersion]

Min(S) == CHOOSE m \in S : \A n \in S : m <= n

\* The process ends: process.exit(code), an uncaught rejection (code 1), or
\* the return of main (code 0).  Whatever its tasks awaited is abandoned.
Ended(c, a, code, diag, lines) ==
    /\ phase' = "exited"
    /\ exitCode' = code
    /\ lastError' = diag
    /\ reported' = lines
    /\ history' = Append(history,
          [cmd |-> c, arg |-> a, exitCode |-> code, reported |-> lines])

Continues ==
    /\ phase' = "running"
    /\ UNCHANGED <<exitCode, lastError, reported, history>>

\* A new process starts a batch: pkgs.split(" ") and one task per piece,
\* each run up to its first await while the loop goes on.
Started(c, a) ==
    /\ phase # "running"
    /\ a \in Args(itemsLeft)
    /\ itemsLeft' = itemsLeft - Len(SplitOn(a, <<" ">>))
    /\ cmd' = c
    /\ arg' = a
    /\ nReads' = 0
    /\ nWrites' = 0
    /\ before' = Found
    /\ UNCHANGED <<scaffold, call, packages>>

Names(a) ==
    LET items == SplitOn(a, <<" ">>)
    IN  [i \in 1..Len(items) |-> extractPackageName(Some(items[i]))]

\* The loop starting a task for every piece, with or without a name.
StartedTasksAll(a) == Len(Names(a))

\* How many tasks the loop starts: all, or those before the first piece
\* with no package name, at which the process exits.
StartedTasks(a) ==
    LET bad == {i \in DOMAIN Names(a) : ~Names(a)[i].ok}
    IN  IF bad = {} THEN Len(Names(a)) ELSE Min(bad) - 1

\* install(pkgs) with a package argument, up to `await Promise.all`.
\* installOne runs to `await getExistingDependencies()`: the read is issued.
StartInstall(a) ==
    /\ Started("install", a)
    /\ tasks' = [i \in 1..StartedTasks(a) |->
                    Task(SplitOn(a, <<" ">>)[i], Names(a)[i].val, "read")]
    /\ IF StartedTasks(a) < Len(Names(a))
       THEN Ended("install", a, 1, Diag("Invalid package name", <<>>), <<>>)
       ELSE /\ phase' = "running"
            /\ exitCode' = 0
            /\ lastError' = NoDiag
            /\ reported' = <<>>
            /\ UNCHANGED history
    /\ children' = <<>>
    /\ UNCHANGED <<disk, file, env>>

\* InstallRead with a withVenv that does not look for the marker: the
\* child is spawned whether or not the environment is there.
InstallReadUnchecked(i) ==
    /\ phase = "running" /\ cmd = "install"
    /\ i \in DOMAIN tasks /\ tasks[i].pc = "read"
    /\ nReads' = nReads + 1
    /\ IF ~fileExists
       THEN /\ Ended(cmd, arg, 1, Diag("ENOENT", <<>>), <<>>)
            /\ UNCHANGED <<tasks, children>>
       ELSE /\ tasks' = [tasks EXCEPT
                  ![i].existing = WithoutName(getExistingDependencies(file), tasks[i].name),
                  ![i].pc = "pipInstall"]
            /\ Continues
            /\ children' = Append(children, Spawned("pip3 install", tasks[i].name, i))
    /\ UNCHANGED <<before, scaffold, call, packages, disk, file, env, cmd, arg, itemsLeft, nWrites>>

\* installOne: the manifest read settles.  A missing file rejects the read
\* and nothing catches it.  Then withVenv(`pip3 install`) checks the
\* marker; without it no child is spawned, withVenvGet returns its error
\* and the process exits.
InstallRead(i) ==
    /\ phase = "running" /\ cmd = "install"
    /\ i \in DOMAIN tasks /\ tasks[i].pc = "read"
    /\ nReads' = nReads + 1
    /\ IF ~fileExists
       THEN /\ Ended(cmd, arg, 1, Diag("ENOENT", <<>>), <<>>)
            /\ UNCHANGED <<tasks, children>>
       ELSE /\ tasks' = [tasks EXCEPT
                  ![i].existing = WithoutName(getExistingDependencies(file), tasks[i].name),
                  ![i].pc = IF ~venvExists THEN "exit" ELSE "pipInstall"]
            /\ IF ~venvExists
               THEN /\ Ended(cmd, arg, 1,
                             Diag("result.message", withVenvGet(Child(0, <<>>, <<>>)).val), <<>>)
                    /\ UNCHANGED children
               ELSE /\ Continues
                    /\ children' = Append(children, Spawned("pip3 install", tasks[i].name, i))
    /\ UNCHANGED <<before, scaffold, call, packages, disk, file, env, cmd, arg, itemsLeft, nWrites>>

\* installOne: `pip3 install ${pkg}` exits.  The tool installed one of its
\* versions, or failed and left the environment as it was; the exit code is
\* dropped.  withVenvGet(`pip3 show`) is issued.
InstallPip(i) ==
    /\ phase = "running" /\ cmd = "install"
    /\ i \in DOMAIN tasks /\ tasks[i].pc = "pipInstall"
    /\ \E out \in PipInstall(tasks[i].name) :
          /\ env' = out.env
          /\ children' = Append(Exited(ChildOf(i), out.code),
                                Spawned("pip3 show", tasks[i].name, i))
    /\ tasks' = [tasks EXCEPT ![i].pc = "pipShow"]
    /\ Continues
    /\ UNCHANGED <<before, scaffold, call, packages, disk, file, cmd, arg, itemsLeft, nReads, nWrites>>

\* installOne from the answer of `pip3 show` to `await writeDependencies`.
InstallShow(i) ==
    /\ phase = "running" /\ cmd = "install"
    /\ i \in DOMAIN tasks /\ tasks[i].pc = "pipShow"
    /\ children' = Exited(ChildOf(i), PipShow(tasks[i].name).code)
    /\ LET pkgVersionResult == withVenvGet(PipShow(tasks[i].name))
           pkgVersion == PkgVersion(pkgVersionResult.val)
           semver == SemVerParse(pkgVersion.val)
       IN  IF ~pkgVersionResult.ok
           THEN /\ Ended(cmd, arg, 1, Diag("result.message", pkgVersionResult.val), <<>>)
                /\ tasks' = [tasks EXCEPT ![i].pc = "exit"]
           ELSE IF ~pkgVersion.ok \/ pkgVersion.val = <<>>
           THEN /\ Ended(cmd, arg, 1, Diag("Failed to get version", <<>>), <<>>)
                /\ tasks' = [tasks EXCEPT ![i].pc = "exit"]
           ELSE IF ~semver.ok
           THEN /\ Ended(cmd, arg, 1, Diag("Invalid semver", pkgVersion.val), <<>>)
                /\ tasks' = [tasks EXCEPT ![i].pc = "exit"]
           ELSE /\ tasks' = [tasks EXCEPT
                      ![i].existing = Append(@, Requirement(tasks[i].name, semver.val)),
                      ![i].version = pkgVersion.val,
                      ![i].pc = "writeOpen"]
                /\ Continues
    /\ UNCHANGED <<before, scaffold, call, packages, disk, file, env, cmd, arg, itemsLeft, nReads, nWrites>>

\* writeDependencies: writeFile opens requirements.txt, creating or
\* truncating it.
WriteOpen(i) ==
    /\ phase = "running"
    /\ i \in DOMAIN tasks /\ tasks[i].pc = "writeOpen"
    /\ disk' = disk \cup {ManifestPath}
    /\ file' = Truncated
    /\ nWrites' = nWrites + 1
    /\ tasks' = [tasks EXCEPT ![i].pc = "writeData"]
    /\ Continues
    /\ UNCHANGED <<before, scaffold, call, packages, children, env, cmd, arg, itemsLeft, nReads>>

\* writeDependencies: writeFile writes the text and the task returns.
WriteData(i) ==
    /\ phase = "running"
    /\ i \in DOMAIN tasks /\ tasks[i].pc = "writeData"
    /\ file' = WrittenAtStart(file, ManifestText(tasks[i].existing))
    /\ tasks' = [tasks EXCEPT ![i].pc = "done"]
    /\ Continues
    /\ UNCHANGED <<before, scaffold, call, packages, children, disk, env, cmd, arg, itemsLeft, nReads, nWrites>>

AllDone == \A i \in DOMAIN tasks : tasks[i].pc = "done"

\* install after `await Promise.all(promises)`: one line per package, then
\* main returns.
FinishInstall ==
    /\ phase = "running" /\ cmd = "install"
    /\ AllDone
    /\ Ended(cmd, arg, 0, NoDiag,
             [i \in DOMAIN tasks |-> [pkg |-> tasks[i].pkg, version |-> tasks[i].version]])
    /\ UNCHANGED <<before, scaffold, call, packages, children, disk, file, env, cmd, arg, tasks, itemsLeft, nReads, nWrites>>

\* uninstall(pkgs), up to `await Promise.all`.  uninstallOne runs to
\* `await withVenvGet(...)`: with the marker present the child is spawned.
StartUninstall(a) ==
    /\ Started("uninstall", a)
    /\ tasks' = [i \in 1..StartedTasks(a) |->
                    Task(SplitOn(a, <<" ">>)[i], Names(a)[i].val,
                         IF venvExists THEN "pipUninstall" ELSE "exit")]
    /\ IF StartedTasks(a) < Len(Names(a))
       THEN Ended("uninstall", a, 1, Diag("Invalid package name", <<>>), <<>>)
       ELSE IF ~venvExists
       THEN Ended("uninstall", a, 1,
                  Diag("result.message", withVenvGet(Child(0, <<>>, <<>>)).val), <<>>)
       ELSE /\ phase' = "running"
            /\ exitCode' = 0
            /\ lastError' = NoDiag
            /\ reported' = <<>>
            /\ UNCHANGED history
    /\ children' = IF ~venvExists THEN <<>>
                   ELSE [i \in 1..StartedTasks(a) |->
                            Spawned("pip3 uninstall", Names(a)[i].val, i)]
    /\ UNCHANGED <<disk, file, env>>

\* What `pip3 uninstall -y` does to the environment.
AfterPipUninstall(name, child) ==
    IF child.code = 0 THEN EnvWithout(name) ELSE env

\* uninstallOne from the answer of `pip3 uninstall -y` to
\* `await getExistingDependencies()`.
UninstallPip(i) ==
    /\ phase = "running" /\ cmd = "uninstall"
    /\ i \in DOMAIN tasks /\ tasks[i].pc = "pipUninstall"
    /\ \E child \in PipUninstall(tasks[i].name) :
          LET result == withVenvGet(child)
          IN  /\ env' = AfterPipUninstall(tasks[i].name, child)
              /\ children' = Exited(ChildOf(i), child.code)
              /\ IF ~result.ok
                 THEN /\ Ended(cmd, arg, 1, Diag("result.message", result.val), <<>>)
                      /\ tasks' = [tasks EXCEPT ![i].pc = "exit"]
                 ELSE IF Includes(result.val, NotInstalledPhrase)
                 THEN /\ Ended(cmd, arg, 1, Diag("no package found", <<>>), <<>>)
                      /\ tasks' = [tasks EXCEPT ![i].pc = "exit"]
                 ELSE /\ tasks' = [tasks EXCEPT ![i].pc = "read"]
                      /\ Continues
    /\ UNCHANGED <<before, scaffold, call, packages, disk, file, cmd, arg, itemsLeft, nReads, nWrites>>

\* uninstallOne: the manifest read settles; writeDependencies is issued.
UninstallRead(i) ==
    /\ phase = "running" /\ cmd = "uninstall"
    /\ i \in DOMAIN tasks /\ tasks[i].pc = "read"
    /\ nReads' = nReads + 1
    /\ IF ~fileExists
       THEN /\ Ended(cmd, arg, 1, Diag("ENOENT", <<>>), <<>>)
            /\ UNCHANGED tasks
       ELSE /\ tasks' = [tasks EXCEPT
                  ![i].existing = WithoutName(getExistingDependencies(file), tasks[i].name),
                  ![i].pc = "writeOpen"]
            /\ Continues
    /\ UNCHANGED <<before, scaffold, call, packages, children, disk, file, env, cmd, arg, itemsLeft, nWrites>>

\* uninstall after `await Promise.all(promises)`: one line per name.
FinishUninstall ==
    /\ phase = "running" /\ cmd = "uninstall"
    /\ AllDone
    /\ Ended(cmd, arg, 0, NoDiag,
             [i \in DOMAIN tasks |-> [pkg |-> tasks[i].name, version |-> NoVersion]])
    /\ UNCHANGED <<before, scaffold, call, packages, children, disk, file, env, cmd, arg, tasks, itemsLeft, nReads, nWrites>>

\* A child spawned with exec outlives the process that exited: the tool
\* still does its work, and nobody reads its answer.
OrphanChild(i) ==
    /\ phase = "exited"
    /\ i \in DOMAIN tasks /\ tasks[i].pc \in {"pipInstall", "pipUninstall"}
    /\ IF tasks[i].pc = "pipInstall"
       THEN \E out \in PipInstall(tasks[i].name) : env' = out.env
       ELSE \E child \in PipUninstall(tasks[i].name) :
               env' = AfterPipUninstall(tasks[i].name, child)
    /\ tasks' = [tasks EXCEPT ![i].pc = "orphan"]
    /\ UNCHANGED <<before, scaffold, call, packages, children, disk, file, phase, cmd, arg,
                   exitCode, lastError, reported, history, itemsLeft, nReads, nWrites>>

(***************************************************************************)
(* Transactional Scaffolder: init                                          *)
(***************************************************************************)

\* fs.readdirSync(templateDir): the template files, which init copies into
\* the project directory under their own names.
Templates == <<".gitignore", "README.md">>

\* The paths that may be there before init runs.
PreExisting == {"README.md", "requirements.txt", ".git"}

\* The exit codes of a failing child.
FailCodes == {1, 2}

\* What rm with { recursive: true } removes.
Subtree(path) == IF path = VenvDir THEN {VenvDir, VenvPath} ELSE {path}

\* The path put at the front of the list instead of its end.
addToRollbackFront(list, relativePath) == <<relativePath>> \o list

\* addToRollback: added.push(path.join(CWD, relativePath))
addToRollback(list, relativePath) == Append(list, relativePath)

\* rollback is called: it logs, and awaits the removal of the first path.
RollbackFrom(step, code) ==
    /\ initPc' = "rollback"
    /\ rbIndex' = 1
    /\ rbCode' = code
    /\ failedStep' = step
    /\ Continues

InitUntouched == UNCHANGED <<env, arg, batch, before, call>>

\* init up to `await Promise.all(promises)`: every copy is started and every
\* destination is put on the rollback list.
StartInit ==
    /\ phase = "idle"
    /\ cmd' = "init"
    /\ phase' = "running"
    /\ before' = Found
    /\ copies' = [i \in DOMAIN Templates |-> "pending"]
    /\ added' = Templates
    /\ initPc' = "copy"
    /\ UNCHANGED <<disk, file, env, arg, exitCode, lastError, reported, history,
                   batch, call, created, rbIndex, rbCode, failedStep>>

\* A copyTemplateFile settles: the file is written, or the copy failed
\* before or after it created the destination.  The first failure rejects
\* Promise.all and starts the rollback, whatever the other copies do; the
\* last success lets init go on: `.venv` goes on the list and
\* `python3 -m venv .venv` is spawned.
CopySettle(i) ==
    /\ phase = "running" /\ cmd = "init"
    /\ i \in DOMAIN copies /\ copies[i] = "pending"
    /\ \E outcome \in {"ok", "failed", "partial"} :
          /\ disk' = IF outcome = "failed" THEN disk ELSE disk \cup {Templates[i]}
          /\ copies' = [copies EXCEPT ![i] = IF outcome = "ok" THEN "ok" ELSE "failed"]
          /\ IF initPc = "copy" /\ outcome # "ok"
             THEN /\ RollbackFrom("copy", 1)
                  /\ UNCHANGED added
             ELSE IF initPc = "copy" /\ \A j \in DOMAIN copies : copies'[j] = "ok"
             THEN /\ added' = addToRollback(added, VenvDir)
                  /\ initPc' = "venv"
                  /\ Continues
                  /\ UNCHANGED <<rbIndex, rbCode, failedStep>>
             ELSE /\ Continues
                  /\ UNCHANGED <<added, initPc, rbIndex, rbCode, failedStep>>
    /\ created' = created \cup (disk' \ disk)
    /\ UNCHANGED <<file, cmd>>
    /\ InitUntouched

\* ExecStep without the test of the exit code: init goes on to the next
\* step whatever the child returned.
ExecStepUnchecked(step, made, code, next, nextPath) ==
    /\ phase = "running" /\ cmd = "init" /\ initPc = step
    /\ disk' = disk \cup made
    /\ created' = created \cup (made \ disk)
    /\ file' = IF ManifestPath \in made \ disk THEN <<>> ELSE file
    /\ IF next = "done"
       THEN /\ Ended("init", arg, 0, NoDiag, <<>>)
            /\ initPc' = "done"
            /\ UNCHANGED <<added, rbIndex, rbCode, failedStep>>
       ELSE /\ added' = addToRollback(added, nextPath)
            /\ initPc' = next
            /\ Continues
            /\ UNCHANGED <<rbIndex, rbCode, failedStep>>
    /\ UNCHANGED <<cmd, copies>>
    /\ InitUntouched

\* A step's child exits with code, having made the paths of made.  On 0 the
\* next step's path goes on the list and its child is spawned, or init
\* returns after the last step; otherwise rollback is called with the code.
ExecStep(step, made, code, next, nextPath) ==
    /\ phase = "running" /\ cmd = "init" /\ initPc = step
    /\ disk' = disk \cup made
    /\ created' = created \cup (made \ disk)
    /\ file' = IF ManifestPath \in made \ disk THEN <<>> ELSE file
    /\ IF code # 0
       THEN /\ RollbackFrom(step, code)
            /\ UNCHANGED added
       ELSE IF next = "done"
       THEN /\ Ended("init", arg, 0, NoDiag, <<>>)
            /\ initPc' = "done"
            /\ UNCHANGED <<added, rbIndex, rbCode, failedStep>>
       ELSE /\ added' = addToRollback(added, nextPath)
            /\ initPc' = next
            /\ Continues
            /\ UNCHANGED <<rbIndex, rbCode, failedStep>>
    /\ UNCHANGED <<cmd, copies>>
    /\ InitUntouched

\* What a child leaves behind: exit code 0 and its paths, or a failure
\* and a part of them.
Outcomes(path) ==
    {[code |-> 0, made |-> Subtree(path)]}
        \cup {[code |-> c, made |-> m] : c \in FailCodes, m \in {{}, {path}, Subtree(path)}}

\* `python3 -m venv .venv` exits; a failing one may leave a part of .venv.
VenvSettle ==
    /\ initPc = "venv"
    /\ \E out \in Outcomes(VenvDir) :
          ExecStep("venv", out.made, out.code, "manifest", ManifestPath)

\* `touch requirements.txt` exits.
ManifestSettle ==
    /\ initPc = "manifest"
    /\ \E out \in Outcomes(ManifestPath) :
          ExecStep("manifest", out.made, out.code, "main", "main.py")

\* `touch main.py` exits.
MainSettle ==
    /\ initPc = "main"
    /\ \E out \in Outcomes("main.py") :
          ExecStep("main", out.made, out.code, "git", ".git")

\* `git init` exits.
GitSettle ==
    /\ initPc = "git"
    /\ \E out \in Outcomes(".git") :
          ExecStep("git", out.made, out.code, "done", "")

\* The disk after fs.promises.rm(path, { recursive: true }) of a path that
\* exists.
Removed(path) == disk \ Subtree(path)

\* RollbackRm without the process.exit after the last path: rollback
\* returns and the process stays as it is.
RollbackRmNoExit ==
    /\ phase = "running" /\ cmd = "init" /\ initPc = "rollback"
    /\ IF added[rbIndex] \notin disk
       THEN /\ Ended("init", arg, 1, Diag("ENOENT", <<>>), <<>>)
            /\ initPc' = "crashed"
            /\ UNCHANGED <<disk, file, rbIndex>>
       ELSE /\ disk' = Removed(added[rbIndex])
            /\ file' = IF added[rbIndex] = ManifestPath THEN <<>> ELSE file
            /\ rbIndex' = rbIndex + 1
            /\ Continues
            /\ initPc' = IF rbIndex = Len(added) THEN "rolledBack" ELSE initPc
    /\ UNCHANGED <<cmd, added, copies, created, rbCode, failedStep>>
    /\ InitUntouched

\* rollback: one turn of its loop.  rm of a path that does not exist rejects
\* (no force option), which nothing catches; after the last path the
\* process exits with the code rollback was given.
RollbackRm ==
    /\ phase = "running" /\ cmd = "init" /\ initPc = "rollback"
    /\ IF added[rbIndex] \notin disk
       THEN /\ Ended("init", arg, 1, Diag("ENOENT", <<>>), <<>>)
            /\ initPc' = "crashed"
            /\ UNCHANGED <<disk, file, rbIndex>>
       ELSE /\ disk' = Removed(added[rbIndex])
            /\ file' = IF added[rbIndex] = ManifestPath THEN <<>> ELSE file
            /\ rbIndex' = rbIndex + 1
            /\ IF rbIndex = Len(added)
               THEN /\ Ended("init", arg, rbCode, Diag("rollback", <<>>), <<>>)
                    /\ initPc' = "rolledBack"
               ELSE /\ Continues
                    /\ UNCHANGED initPc
    /\ UNCHANGED <<cmd, added, copies, created, rbCode, failedStep>>
    /\ InitUntouched

Next ==
    \/ \E a \in Args(MaxItems) : StartInstall(a)
    \/ \E i \in 1..MaxItems : InstallRead(i)
    \/ \E i \in 1..MaxItems : InstallPip(i)
    \/ \E i \in 1..MaxItems : InstallShow(i)
    \/ \E i \in 1..MaxItems : WriteOpen(i)
    \/ \E i \in 1..MaxItems : WriteData(i)
    \/ FinishInstall
    \/ \E a \in Args(MaxItems) : StartUninstall(a)
    \/ \E i \in 1..MaxItems : UninstallPip(i)
    \/ \E i \in 1..MaxItems : UninstallRead(i)
    \/ FinishUninstall
    \/ \E i \in 1..MaxItems : OrphanChild(i)

Spec == Init /\ [][Next]_vars

\* init in a project directory that holds any of the paths of PreExisting.
ScaffoldInit ==
    /\ disk \in SUBSET PreExisting
    /\ file = <<>>
    /\ env = {}
    /\ Fresh
    /\ NoCall

ScaffoldNext ==
    \/ StartInit
    \/ \E i \in DOMAIN Templates : CopySettle(i)
    \/ VenvSettle
    \/ ManifestSettle
    \/ MainSettle
    \/ GitSettle
    \/ RollbackRm

ScaffoldSpec == ScaffoldInit /\ [][ScaffoldNext]_vars

\* init where every copy settles, every child exits and every rm settles.
ScaffoldLive ==
    /\ ScaffoldInit
    /\ [][ScaffoldNext]_vars
    /\ \A i \in DOMAIN Templates : WF_vars(CopySettle(i))
    /\ WF_vars(VenvSettle)
    /\ WF_vars(ManifestSettle)
    /\ WF_vars(MainSettle)
    /\ WF_vars(GitSettle)
    /\ WF_vars(RollbackRm)

(***************************************************************************)
(* Commands without a package argument: install, uninstall, update         *)
(***************************************************************************)

\* A new process starts a command with no package argument.
StartedAlone(c) ==
    /\ phase # "running"
    /\ Len(history) < MaxCommands
    /\ cmd' = c
    /\ arg' = NoArg
    /\ tasks' = <<>>
    /\ packages' = <<>>
    /\ nReads' = 0
    /\ nWrites' = 0
    /\ before' = Found
    /\ UNCHANGED <<disk, file, env, itemsLeft, scaffold, call>>

\* The child of the command itself that has not exited.
Awaited(tool) ==
    {k \in DOMAIN children :
        children[k].task = 0 /\ children[k].tool = tool /\ ~children[k].exited}

\* install() with pkgs undefined, up to `await withVenv(...)`.  Without the
\* marker withVenv returns 1, install returns and main prints "done".
StartInstallAll ==
    /\ StartedAlone("install")
    /\ IF ~venvExists
       THEN /\ Ended("install", NoArg, 0, NoDiag, <<>>)
            /\ children' = <<>>
       ELSE /\ Continues
            /\ children' = <<Spawned("pip3 install -r", <<>>, 0)>>

\* The environment after `pip3 install -r requirements.txt` succeeded.
EnvWithManifest ==
    {p \in env : p.name \notin EntryNames(Manifest)}
        \cup {[name |-> r.name, version |-> SemVerToString(r.version)] :
                 r \in Entries(Manifest)}

\* `pip3 install -r requirements.txt`: fails without the file.
PipInstallAll ==
    {[code |-> c, env |-> env] : c \in {1}}
        \cup (IF fileExists THEN {[code |-> 0, env |-> EnvWithManifest]} ELSE {})

\* InstallAllExit, rewriting the manifest from dependencies it never read.
InstallAllExitRewrites ==
    /\ phase = "running" /\ cmd = "install"
    /\ \E k \in Awaited("pip3 install -r"), out \in PipInstallAll :
          /\ env' = out.env
          /\ children' = Exited(k, withVenv(out))
    /\ Ended(cmd, arg, 0, NoDiag, <<>>)
    /\ disk' = disk \cup {ManifestPath}
    /\ file' = ManifestText(<<>>)
    /\ nWrites' = nWrites + 1
    /\ UNCHANGED <<cmd, arg, before, tasks, packages, itemsLeft, nReads, scaffold, call>>

\* install() with pkgs undefined: the child exits, its code is dropped,
\* install returns and main prints "done".
InstallAllExit ==
    /\ phase = "running" /\ cmd = "install"
    /\ \E k \in Awaited("pip3 install -r"), out \in PipInstallAll :
          /\ env' = out.env
          /\ children' = Exited(k, withVenv(out))
    /\ Ended(cmd, arg, 0, NoDiag, <<>>)
    /\ UNCHANGED <<disk, file, cmd, arg, before, tasks, packages, itemsLeft,
                   nReads, nWrites, scaffold, call>>

\* uninstall() with pkgs undefined: console.error, return, and main prints
\* "done".
UninstallNothing ==
    /\ StartedAlone("uninstall")
    /\ children' = <<>>
    /\ Ended("uninstall", NoArg, 0, Diag("No package provided", <<>>), <<>>)

\* The latest version the package index has of every package.
Latest == V200

\* The order in which the tool lists packages.
PackageOrder == << <<"a">>, <<"b">> >>

ReportHeader ==
    <<"P", "a", "c", "k", "a", "g", "e", " ", "V", "e", "r", "s", "i", "o", "n", " ",
      "L", "a", "t", "e", "s", "t", " ", "T", "y", "p", "e">>

ReportSeparator == <<"-", "-", "-", " ", "-", "-", "-", " ", "-", "-", "-", " ", "-", "-", "-">>

\* The row of a package in the report of `pip3 list --outdated`.
OutdatedRow(name, current, latest) ==
    name \o <<" ", " ">> \o current \o <<" ">> \o latest \o <<" ", "w", "h", "e", "e", "l">>

\* The tool's own row.
PipRow == OutdatedRow(<<"p", "i", "p">>, <<"2", "4", ".", "0">>, <<"2", "4", ".", "2">>)

\* The rows of the installed packages that are not at their latest version.
RECURSIVE OutdatedRows(_)
OutdatedRows(names) ==
    IF names = <<>> THEN <<>>
    ELSE (IF InstalledVersion(Head(names)) \notin {NoVersion, Latest}
          THEN <<OutdatedRow(Head(names), InstalledVersion(Head(names)), Latest)>>
          ELSE <<>>) \o OutdatedRows(Tail(names))

\* The report with these rows; the tool prints nothing when there is none.
Report(rows) ==
    IF rows = <<>> THEN <<>>
    ELSE JoinWith(<<ReportHeader, ReportSeparator>> \o rows, NL) \o NL

\* A row cut short after its second field.
ShortRow == <<"z", " ", "1", ".", "0", ".", "0">>

\* `pip3 list --outdated`: what the child can leave behind: a failure, the
\* report, the report with the tool's own row first, the report with a row
\* cut short at its end.
PipListOutdated ==
    {Child(1, <<>>, ErrorText),
     Child(0, Report(OutdatedRows(PackageOrder)), <<>>),
     Child(0, Report(<<PipRow>> \o OutdatedRows(PackageOrder)), <<>>),
     Child(0, Report(OutdatedRows(PackageOrder) \o <<ShortRow>>), <<>>)}

\* An outdated package as update keeps it.
Outdated(name, currentVersion, latestVersion) ==
    [name |-> name, currentVersion |-> currentVersion, latestVersion |-> latestVersion]

\* The loop going on to the next line where update exits: a line it cannot
\* parse is skipped.
RECURSIVE ParseOutdatedLenient(_, _)
ParseOutdatedLenient(lines, acc) ==
    IF lines = <<>> THEN [ok |-> TRUE, packages |-> acc, diag |-> NoDiag]
    ELSE LET fields == SplitSpaces(Head(lines))
         IN  IF Len(fields) < 3 \/ Trim(fields[1]) = <<"p", "i", "p">>
             THEN ParseOutdatedLenient(Tail(lines), acc)
             ELSE IF ~SemVerParse(Trim(fields[2])).ok \/ ~SemVerParse(Trim(fields[3])).ok
             THEN ParseOutdatedLenient(Tail(lines), acc)
             ELSE ParseOutdatedLenient(Tail(lines),
                     Append(acc, Outdated(Trim(fields[1]), SemVerParse(Trim(fields[2])).val,
                                          SemVerParse(Trim(fields[3])).val)))

\* update's loop over the data lines of the report: the packages, or the
\* diagnostic of the line at which the process exits.
RECURSIVE ParseOutdated(_, _)
ParseOutdated(lines, acc) ==
    IF lines = <<>> THEN [ok |-> TRUE, packages |-> acc, diag |-> NoDiag]
    ELSE LET line == Head(lines)
             fields == SplitSpaces(line)
         IN  IF Len(fields) < 3
             THEN [ok |-> FALSE, packages |-> acc, diag |-> Diag("Invalid line", line)]
             ELSE IF Trim(fields[1]) = <<"p", "i", "p">>
             THEN ParseOutdated(Tail(lines), acc)
             ELSE LET currentSemver == SemVerParse(Trim(fields[2]))
                      latestSemver == SemVerParse(Trim(fields[3]))
                  IN  IF ~currentSemver.ok
                      THEN [ok |-> FALSE, packages |-> acc,
                            diag |-> Diag("Invalid semver (current)", fields[2])]
                      ELSE IF ~latestSemver.ok
                      THEN [ok |-> FALSE, packages |-> acc,
                            diag |-> Diag("Invalid semver (latest)", fields[3])]
                      ELSE ParseOutdated(Tail(lines),
                              Append(acc, Outdated(Trim(fields[1]), currentSemver.val,
                                                   latestSemver.val)))

\* update(), up to `await withVenvGet(...)`.  Without the marker the error
\* is printed, update returns and main prints "done".
StartUpdate ==
    /\ StartedAlone("update")
    /\ IF ~venvExists
       THEN /\ Ended("update", NoArg, 0,
                     Diag("result.message", withVenvGet(Child(0, <<>>, <<>>)).val), <<>>)
            /\ children' = <<>>
       ELSE /\ Continues
            /\ children' = <<Spawned("pip3 list --outdated", <<>>, 0)>>

\* update's summary: one line per package, whatever its install did.
UpdateSummary ==
    [j \in DOMAIN packages |->
        [pkg |-> packages[j].name,
         version |-> SemVerToString(packages[j].latestVersion),
         current |-> SemVerToString(packages[j].currentVersion)]]

\* `pip3 install ${pkg.name}==${SemVer.toString(pkg.latestVersion)}`
UpdateChild(pkg) == Spawned("pip3 install", pkg.name, 0)

\* update from the answer of `pip3 list --outdated` to the first
\* `await withVenv(...)` of its install loop.
UpdateReport ==
    /\ phase = "running" /\ cmd = "update"
    /\ \E k \in Awaited("pip3 list --outdated"), child \in PipListOutdated :
          LET result == withVenvGet(child)
              lines == Drop(SplitOn(Trim(result.val), NL), 2)
              parsed == ParseOutdated(lines, <<>>)
          IN  IF ~result.ok
              THEN /\ Ended(cmd, arg, 0, Diag("result.message", result.val), <<>>)
                   /\ children' = Exited(k, child.code)
                   /\ UNCHANGED packages
              ELSE IF ~parsed.ok
              THEN /\ Ended(cmd, arg, 1, parsed.diag, <<>>)
                   /\ children' = Exited(k, child.code)
                   /\ UNCHANGED packages
              ELSE IF parsed.packages = <<>>
              THEN /\ Ended(cmd, arg, 0, NoDiag, <<>>)
                   /\ children' = Exited(k, child.code)
                   /\ UNCHANGED packages
              ELSE /\ Continues
                   /\ packages' = parsed.packages
                   /\ children' = Append(Exited(k, child.code),
                                         UpdateChild(parsed.packages[1]))
    /\ UNCHANGED <<disk, file, env, cmd, arg, before, tasks, itemsLeft,
                   nReads, nWrites, scaffold, call>>

\* UpdateInstall with the summary printed when the first install exits,
\* while the next one is spawned and not awaited.
UpdateInstallEarlySummary ==
    /\ phase = "running" /\ cmd = "update"
    /\ \E k \in Awaited("pip3 install") :
          LET j == k - 1
              pkg == packages[j]
          IN  \E code \in {0, 1} :
                 /\ env' = IF code = 0
                           THEN EnvWith(pkg.name, SemVerToString(pkg.latestVersion))
                           ELSE env
                 /\ children' = IF j < Len(packages)
                                THEN Append(Exited(k, code), UpdateChild(packages[j + 1]))
                                ELSE Exited(k, code)
    /\ Ended(cmd, arg, 0, NoDiag, UpdateSummary)
    /\ UNCHANGED <<disk, file, cmd, arg, before, tasks, packages, itemsLeft,
                   nReads, nWrites, scaffold, call>>

\* UpdateInstall with the manifest rewritten from the latest versions once
\* the installs are done.
UpdateInstallWrites ==
    /\ phase = "running" /\ cmd = "update"
    /\ \E k \in Awaited("pip3 install") :
          LET j == k - 1
              pkg == packages[j]
          IN  /\ \E code \in {0, 1} :
                    /\ env' = IF code = 0
                              THEN EnvWith(pkg.name, SemVerToString(pkg.latestVersion))
                              ELSE env
                    /\ children' = IF j < Len(packages)
                                   THEN Append(Exited(k, code), UpdateChild(packages[j + 1]))
                                   ELSE Exited(k, code)
              /\ IF j < Len(packages)
                 THEN /\ Continues
                      /\ UNCHANGED <<disk, file, nWrites>>
                 ELSE /\ Ended(cmd, arg, 0, NoDiag, UpdateSummary)
                      /\ disk' = disk \cup {ManifestPath}
                      /\ file' = ManifestText([i \in DOMAIN packages |->
                                     Requirement(packages[i].name, packages[i].latestVersion)])
                      /\ nWrites' = nWrites + 1
    /\ UNCHANGED <<cmd, arg, before, tasks, packages, itemsLeft, nReads, scaffold, call>>

\* update's install loop: the install of a package exits and its code is
\* dropped; the next one is spawned, or the summary is printed and update
\* returns.
UpdateInstall ==
    /\ phase = "running" /\ cmd = "update"
    /\ \E k \in Awaited("pip3 install") :
          LET j == k - 1
              pkg == packages[j]
          IN  /\ \E code \in {0, 1} :
                    /\ env' = IF code = 0
                              THEN EnvWith(pkg.name, SemVerToString(pkg.latestVersion))
                              ELSE env
                    /\ children' = IF j < Len(packages)
                                   THEN Append(Exited(k, code), UpdateChild(packages[j + 1]))
                                   ELSE Exited(k, code)
              /\ IF j < Len(packages)
                 THEN Continues
                 ELSE Ended(cmd, arg, 0, NoDiag, UpdateSummary)
    /\ UNCHANGED <<disk, file, cmd, arg, before, tasks, packages, itemsLeft,
                   nReads, nWrites, scaffold, call>>

\* list -----------------------------------------------------------------------

\* A row of `pip3 list`: the name filled with spaces to the width of its
\* column, a space, the version.
ListRow(name, version) ==
    name \o [i \in 1..(7 - Len(name)) |-> " "] \o <<" ">> \o version

\* The rows of the installed packages, and the tool's own row.
ListRows ==
    [j \in 1..Len(SelectSeq(PackageOrder, LAMBDA n : InstalledVersion(n) # NoVersion)) |->
        LET n == SelectSeq(PackageOrder, LAMBDA m : InstalledVersion(m) # NoVersion)[j]
        IN  ListRow(n, InstalledVersion(n))]
      \o <<ListRow(<<"p", "i", "p">>, <<"2", "4", ".", "0">>)>>

\* `pip3 list`: what the child can leave behind.
PipList ==
    {Child(1, <<>>, ErrorText),
     Child(0, JoinWith(<<<<"P", "a", "c", "k", "a", "g", "e", " ", "V", "e", "r", "s", "i", "o", "n">>, <<"-", "-", "-", "-", "-", "-", "-", " ", "-", "-", "-", "-", "-", "-", "-">>>> \o ListRows, NL) \o NL, <<>>)}

\* The loop taking the second token of a row as its version.
RECURSIVE ParseListingSecondToken(_, _)
ParseListingSecondToken(lines, acc) ==
    IF lines = <<>> THEN [ok |-> TRUE, packages |-> acc, diag |-> NoDiag]
    ELSE LET split == SplitOn(Head(lines), <<" ">>)
             name == split[1]
             version == IF Len(split) >= 2 THEN split[2] ELSE <<>>
         IN  IF name = <<>> \/ version = <<>> \/ Trim(name) = <<"p", "i", "p">>
             THEN ParseListingSecondToken(Tail(lines), acc)
             ELSE LET semver == SemVerParse(Trim(version))
                  IN  IF ~semver.ok
                      THEN [ok |-> FALSE, packages |-> acc,
                            diag |-> Diag("Invalid semver", version)]
                      ELSE ParseListingSecondToken(Tail(lines),
                              Append(acc, [pkg |-> Trim(name),
                                           version |-> SemVerToString(semver.val)]))

\* list's loop over the rows: the packages of the table, or the diagnostic
\* of the row at which the process exits.
RECURSIVE ParseListing(_, _)
ParseListing(lines, acc) ==
    IF lines = <<>> THEN [ok |-> TRUE, packages |-> acc, diag |-> NoDiag]
    ELSE LET split == SplitOn(Head(lines), <<" ">>)
             name == split[1]
             version == split[Len(split)]
         IN  IF name = <<>> \/ version = <<>> \/ Trim(name) = <<"p", "i", "p">>
             THEN ParseListing(Tail(lines), acc)
             ELSE LET semver == SemVerParse(Trim(version))
                  IN  IF ~semver.ok
                      THEN [ok |-> FALSE, packages |-> acc,
                            diag |-> Diag("Invalid semver", version)]
                      ELSE ParseListing(Tail(lines),
                              Append(acc, [pkg |-> Trim(name),
                                           version |-> SemVerToString(semver.val)]))

\* list(), up to `await withVenvGet(...)`.  Without the marker the error is
\* printed and the process exits with 1.
StartList ==
    /\ StartedAlone("list")
    /\ IF ~venvExists
       THEN /\ Ended("list", NoArg, 1,
                     Diag("result.message", withVenvGet(Child(0, <<>>, <<>>)).val), <<>>)
            /\ children' = <<>>
       ELSE /\ Continues
            /\ children' = <<Spawned("pip3 list", <<>>, 0)>>

\* list from the answer of `pip3 list` to its end: an error of the tool or
\* a row with an invalid version exits with 1, else the table is printed.
ListReport ==
    /\ phase = "running" /\ cmd = "list"
    /\ \E k \in Awaited("pip3 list"), child \in PipList :
          LET result == withVenvGet(child)
              lines == Drop(SplitOn(Trim(result.val), NL), 2)
              parsed == ParseListing(lines, <<>>)
          IN  /\ children' = Exited(k, child.code)
              /\ IF ~result.ok
                 THEN Ended(cmd, arg, 1, Diag("result.message", result.val), <<>>)
                 ELSE IF ~parsed.ok
                 THEN Ended(cmd, arg, 1, parsed.diag, <<>>)
                 ELSE Ended(cmd, arg, 0, NoDiag, parsed.packages)
    /\ UNCHANGED <<disk, file, env, cmd, arg, before, tasks, packages, itemsLeft,
                   nReads, nWrites, scaffold, call>>

\* run ------------------------------------------------------------------------

\* The script arguments of run: none, or a path.
Scripts == {NoArg, <<"a", ".", "p", "y">>}

\* The file run looks for: main.py when no script is given.
ScriptFile(script) == IF script = NoArg THEN "main.py" ELSE "a.py"

\* The exit codes of `python3 ${script}`.
ScriptCodes == {0, 1, 2}

\* run(script), up to `await withVenv(...)`.  A missing script exits with
\* 1; without the marker withVenv returns 1 and the process exits with it.
StartRun(script) ==
    /\ phase # "running"
    /\ Len(history) < MaxCommands
    /\ cmd' = "run"
    /\ arg' = script
    /\ tasks' = <<>>
    /\ packages' = <<>>
    /\ nReads' = 0
    /\ nWrites' = 0
    /\ before' = Found
    /\ IF ScriptFile(script) \notin disk
       THEN /\ Ended("run", script, 1, Diag("does not exist", <<>>), <<>>)
            /\ children' = <<>>
       ELSE IF ~venvExists
       THEN /\ Ended("run", script, withVenv(Child(0, <<>>, <<>>)), NoDiag, <<>>)
            /\ children' = <<>>
       ELSE /\ Continues
            /\ children' = <<Spawned("python3", script, 0)>>
    /\ UNCHANGED <<disk, file, env, itemsLeft, scaffold, call>>

\* RunExit with the child's code dropped: run returns and main ends with 0.
RunExitDropsCode ==
    /\ phase = "running" /\ cmd = "run"
    /\ \E k \in Awaited("python3"), code \in ScriptCodes :
          children' = Exited(k, code)
    /\ Ended(cmd, arg, 0, NoDiag, <<>>)
    /\ UNCHANGED <<disk, file, env, cmd, arg, before, tasks, packages, itemsLeft,
                   nReads, nWrites, scaffold, call>>

\* run: the child exits and the process exits with its code.
RunExit ==
    /\ phase = "running" /\ cmd = "run"
    /\ \E k \in Awaited("python3"), code \in ScriptCodes :
          /\ children' = Exited(k, code)
          /\ Ended(cmd, arg, withVenv(Child(code, <<>>, <<>>)), NoDiag, <<>>)
    /\ UNCHANGED <<disk, file, env, cmd, arg, before, tasks, packages, itemsLeft,
                   nReads, nWrites, scaffold, call>>

\* The environments a project has: nothing installed, packages at their
\* first version, a package at its latest version, a package whose version
\* number is not major.minor.patch.
Environments ==
    {{},
     {[name |-> <<"b">>, version |-> V100]},
     {[name |-> <<"a">>, version |-> V100], [name |-> <<"b">>, version |-> V100]},
     {[name |-> <<"a">>, version |-> V100], [name |-> <<"b">>, version |-> V200]},
     {[name |-> <<"a">>, version |-> V100], [name |-> <<"b">>, version |-> V10]}}

CommandInit ==
    /\ \E hasVenv \in BOOLEAN, hasFile \in BOOLEAN, scripts \in SUBSET {"main.py", "a.py"} :
          disk = (IF hasVenv THEN {VenvDir, VenvPath} ELSE {})
                    \cup (IF hasFile THEN {ManifestPath} ELSE {})
                    \cup scripts
    /\ \E prior \in PriorManifests :
          file = (IF ManifestPath \in disk THEN ManifestText(prior) ELSE <<>>)
    /\ \E installed \in Environments :
          env = (IF VenvPath \in disk THEN installed ELSE {})
    /\ Fresh
    /\ NoCall

CommandNext ==
    \/ StartInstallAll
    \/ InstallAllExit
    \/ UninstallNothing
    \/ StartUpdate
    \/ UpdateReport
    \/ UpdateInstall
    \/ StartList
    \/ ListReport
    \/ \E script \in Scripts : StartRun(script)
    \/ RunExit

CommandSpec == CommandInit /\ [][CommandNext]_vars

\* A project without its environment: the commands that go through the
\* adapter, with and without a package argument.
NoVenvInit ==
    /\ \E hasFile \in BOOLEAN : disk = (IF hasFile THEN {ManifestPath} ELSE {})
    /\ \E prior \in PriorManifests :
          file = (IF ManifestPath \in disk /\ prior # <<>> THEN TypedText(prior) ELSE <<>>)
    /\ env = {}
    /\ Fresh
    /\ NoCall

NoVenvNext ==
    \/ \E a \in Args(MaxItems) : StartInstall(a)
    \/ \E i \in 1..MaxItems : InstallRead(i)
    \/ \E a \in Args(MaxItems) : StartUninstall(a)
    \/ StartInstallAll
    \/ StartUpdate
    \/ StartList

NoVenvSpec == NoVenvInit /\ [][NoVenvNext]_vars

(***************************************************************************)
(* Functions called on their own                                           *)
(***************************************************************************)

\* What a child writes to stdout or stderr.
Outputs ==
    {<<>>, <<"O", "K">>, <<" ", "O", "K", "\n">>, <<"\n">>,
     <<"E", "R", "R", "O", "R">>, <<"n", "o", "t", " ", "f", "o", "u", "n", "d", " ", "\n">>}

\* The children execShellGet is called on.
CaptureChildren ==
    {Child(code, out, err) : code \in {0, 1, 2, 127}, out \in Outputs, err \in Outputs}

\* execShellGet(command), the child having exited.
CallExecShellGet ==
    /\ fn = "execShellGet" /\ ~returned
    /\ output' = execShellGet(input)
    /\ returned' = TRUE
    /\ UNCHANGED <<fn, input, disk, file, env, phase, cmd, arg, exitCode, lastError,
                   reported, history, before, batch, scaffold>>

\* The lines a manifest file is made of: entries, one of them with build
\* metadata, a blank line, a line without "==", lines with an empty half, a
\* line whose version is not a semantic version.
LineKinds ==
    {<<"a", "=", "=", "1", ".", "0", ".", "0">>, <<"b", "=", "=", "2", ".", "1", ".", "0">>, <<"c", "=", "=", "1", ".", "0", ".", "0", "+", "m">>,
     <<>>, <<"a">>, <<"=", "=", "1", ".", "0", ".", "0">>, <<"a", "=", "=">>, <<"b", "=", "=", "1", ".", "x">>}

\* The sequences of up to n lines.
RECURSIVE LineLists(_)
LineLists(n) ==
    IF n = 0 THEN {<<>>}
    ELSE LineLists(n - 1) \cup {Append(l, x) : l \in LineLists(n - 1), x \in LineKinds}

\* The contents of a manifest file, with and without the newline at the end.
Contents == {JoinWith(l, NL) \o t : l \in LineLists(MaxLines), t \in {<<>>, NL}}

\* getExistingDependencies() with the file there.
CallGetExistingDependencies ==
    /\ fn = "getExistingDependencies" /\ ~returned
    /\ fileExists
    /\ output' = getExistingDependencies(file)
    /\ returned' = TRUE
    /\ UNCHANGED <<fn, input, disk, file, env, phase, cmd, arg, exitCode, lastError,
                   reported, history, before, batch, scaffold>>

\* The entries writeDependencies is called with.
Requirements ==
    {Requirement(name, version) :
        name \in {<<"a">>, <<"b">>, <<"@", "s", "/", "c">>},
        version \in {SemVerCreate(1, 0, 0, <<>>), SemVerCreate(2, 1, 0, <<>>),
                     SemVerCreate(10, 20, 3, <<>>), SemVerCreate(1, 0, 0, <<"m">>)}}

\* The sequences of up to n entries with distinct names.
RECURSIVE DepLists(_)
DepLists(n) ==
    IF n = 0 THEN {<<>>}
    ELSE DepLists(n - 1)
            \cup UNION {{Append(l, r) : r \in {q \in Requirements : q.name \notin EntryNames(l)}} :
                           l \in DepLists(n - 1)}

\* What the file holds before the write.
PreviousContents ==
    {<<>>, <<"z", "z", "=", "=", "9", ".", "9", ".", "9", "\n", "y", "y", "=", "=", "8", ".", "8", ".", "8", "\n", "x", "x", "=", "=", "7", ".", "7", ".", "7", "\n", "w", "w", "=", "=", "6", ".", "6", ".", "6", "\n">>}

\* writeDependencies(dependencies), nothing else writing the file: writeFile
\* creates or truncates the file and writes the text.
CallWriteDependencies ==
    /\ fn = "writeDependencies" /\ ~returned
    /\ disk' = disk \cup {ManifestPath}
    /\ file' = WrittenAtStart(Truncated, ManifestText(input))
    /\ returned' = TRUE
    /\ UNCHANGED <<fn, input, output, env, phase, cmd, arg, exitCode, lastError,
                   reported, history, before, batch, scaffold>>

\* A source-URL specifier: (git+)?https?://host/org/repo(.git)?(@ref)?
UrlSpec(gitPlus, scheme, repo, dotGit, ref) ==
    gitPlus \o scheme \o <<":", "/", "/", "g", "i", "t", "h", "u", "b", ".", "c", "o", "m", "/", "o", "r", "g", "/">>
        \o repo \o dotGit \o ref

RepoNames == {<<"r", "e", "p", "o">>, <<"m", "y", "-", "r", "e", "p", "o">>, <<"r", "_", "2">>}

UrlSpecs ==
    {UrlSpec(gitPlus, scheme, repo, dotGit, ref) :
        gitPlus \in {<<>>, <<"g", "i", "t", "+">>},
        scheme \in {<<"h", "t", "t", "p">>, <<"h", "t", "t", "p", "s">>},
        repo \in RepoNames,
        dotGit \in {<<>>, <<".", "g", "i", "t">>},
        ref \in {<<>>, <<"@", "m", "a", "i", "n">>}}

\* What follows the name in a plain or pinned specifier.
NameTails ==
    {<<>>, <<"=", "=", "2", ".", "0", ".", "1">>, <<"@", "1", ".", "0">>, <<">", "=", "1", ".", "0">>, <<" ", "e", "x", "t", "r", "a">>,
     <<"~", "=", "2">>, <<"^", "1">>, <<"<", "2">>, <<"!">>, <<"/", "x">>}

PlainSpecs ==
    {name \o tail : name \in {<<"f", "l", "a", "s", "k">>, <<"m", "y", "-", "p", "k", "g">>, <<"a", ".", "b">>}, tail \in NameTails}

ScopedSpecs ==
    {<<"@", "s", "c", "o", "p", "e", "/">> \o name \o tail :
        name \in {<<"p", "k", "g">>, <<"m", "y", "-", "p", "k", "g", ".", "x">>}, tail \in {<<>>, <<"@", "1", ".", "0", ".", "0">>, <<"!">>}}
        \cup {<<"@", "s", "c", "o", "p", "e">>, <<"@", "/", "x">>}

BlankSpecs == {<<>>, <<" ", " ">>, <<" ", "f", "l", "a", "s", "k", " ", "\n">>}

\* The arguments of extractPackageName: null or undefined, and strings.
PackageSpecs ==
    {None} \cup {Some(x) : x \in UrlSpecs \cup PlainSpecs \cup ScopedSpecs \cup BlankSpecs}

\* extractPackageName(packageSpec)
CallExtractPackageName ==
    /\ fn = "extractPackageName" /\ ~returned
    /\ output' = extractPackageName(input)
    /\ returned' = TRUE
    /\ UNCHANGED <<fn, input, disk, file, env, phase, cmd, arg, exitCode, lastError,
                   reported, history, before, batch, scaffold>>

\* parseInput: of the positionals of the command line, the first is the
\* command name and the second its argument; undefined is None.
parseInput(positionals) ==
    [commandNameRaw |-> IF Len(positionals) >= 1 THEN Some(positionals[1]) ELSE None,
     arg |-> IF Len(positionals) >= 2 THEN Some(positionals[2]) ELSE None]

CommandWords == {<<"i", "n", "s", "t", "a", "l", "l">>, <<"u", "n", "i", "n", "s", "t", "a", "l", "l">>}

\* The package words of a command line: names, and two names in one word.
PackageWords == {<<"a">>, <<"b">>, <<"c">>, <<"a", " ", "b">>}

\* process.argv.slice(2) without the options: a command and up to three
\* package words.
CommandLines ==
    {<<>>}
        \cup {<<c>> : c \in CommandWords}
        \cup {<<c, x>> : c \in CommandWords, x \in PackageWords}
        \cup {<<c, x, y>> : c \in CommandWords, x \in PackageWords, y \in PackageWords}
        \cup {<<c, x, y, z>> : c \in CommandWords, x \in {<<"a">>, <<"b">>},
                               y \in {<<"a">>, <<"b">>}, z \in PackageWords}

\* parseInput(config)
CallParseInput ==
    /\ fn = "parseInput" /\ ~returned
    /\ output' = parseInput(input)
    /\ returned' = TRUE
    /\ UNCHANGED <<fn, input, disk, file, env, phase, cmd, arg, exitCode, lastError,
                   reported, history, before, batch, scaffold>>

FunctionInit ==
    /\ \/ /\ fn = "execShellGet"
          /\ input \in CaptureChildren
          /\ disk = {} /\ file = <<>>
       \/ /\ fn = "getExistingDependencies"
          /\ input = <<>>
          /\ disk = {ManifestPath} /\ file \in Contents
       \/ /\ fn = "writeDependencies"
          /\ input \in DepLists(MaxDeps)
          /\ \/ disk = {} /\ file = <<>>
             \/ disk = {ManifestPath} /\ file \in PreviousContents
       \/ /\ fn = "extractPackageName"
          /\ input \in PackageSpecs
          /\ disk = {} /\ file = <<>>
       \/ /\ fn = "parseInput"
          /\ input \in CommandLines
          /\ disk = {} /\ file = <<>>
    /\ env = {}
    /\ Fresh

FunctionNext ==
    \/ CallExecShellGet
    \/ CallGetExistingDependencies
    \/ CallWriteDependencies
    \/ CallExtractPackageName
    \/ CallParseInput

FunctionSpec == FunctionInit /\ [][FunctionNext]_vars

(***************************************************************************)
(* Properties                                                              *)
(***************************************************************************)

\* The manifest as the current or last process found it.
ManifestBefore ==
    IF ManifestPath \in before.disk THEN getExistingDependencies(before.file) ELSE <<>>

TaskNames == {tasks[i].name : i \in DOMAIN tasks}

\* The indices of the manifest entries with this name.
EntriesNamed(deps, name) == {i \in DOMAIN deps : deps[i].name = name}

\* A batch of at least two packages with pairwise distinct names ended
\* with every item succeeding.
BatchSucceeded(c) ==
    /\ phase = "exited" /\ cmd = c /\ exitCode = 0
    /\ Len(tasks) >= 2
    /\ Cardinality(TaskNames) = Len(tasks)

\* C1: after a batch install of two or more distinct names in which every
\* item succeeded, the manifest has an entry for every name of the batch and
\* still has every prior entry whose name is not in the batch.
C1_NoLostUpdate ==
    BatchSucceeded("install") =>
        /\ TaskNames \subseteq EntryNames(Manifest)
        /\ \A r \in Entries(ManifestBefore) :
              r.name \notin TaskNames => r \in Entries(Manifest)

\* C2: a batch that ended with success did exactly one manifest read and
\* exactly one manifest write, whatever its size.
C2_OneReadOneWrite ==
    (phase = "exited" /\ cmd \in {"install", "uninstall"} /\ exitCode = 0) =>
        (nReads = 1 /\ nWrites = 1)

\* The task still has a tool invocation to await.
ToolsPending(i) ==
    \/ cmd = "install" /\ tasks[i].pc \in {"read", "pipInstall", "pipShow"}
    \/ cmd = "uninstall" /\ tasks[i].pc = "pipUninstall"

\* C3: in a running batch the manifest is written only once no task of the
\* batch has a tool invocation left.
C3_MutationAfterAllTasks ==
    (phase = "running" /\ cmd \in {"install", "uninstall"} /\ nWrites > 0) =>
        \A i \in DOMAIN tasks : ~ToolsPending(i)

\* C4: the manifest holds at most one entry per name, in every state.
C4_UniqueNames ==
    \A i, j \in DOMAIN Manifest : Manifest[i].name = Manifest[j].name => i = j

\* C5: when a package of a batch fails in a project that has its
\* environment (the tool failed, the version query failed or the version
\* did not parse), every sibling has run to completion and its outcome is
\* reported.
C5_FailureIsolation ==
    (/\ phase = "exited" /\ VenvPath \in before.disk
     /\ lastError.tag \in {"result.message", "Failed to get version", "Invalid semver"}
     /\ \E i \in DOMAIN tasks : tasks[i].pc = "exit") =>
        \A j \in DOMAIN tasks :
            \/ tasks[j].pc = "exit"
            \/ /\ tasks[j].pc = "done"
               /\ \E k \in DOMAIN reported : reported[k].pkg = tasks[j].pkg

GoodAndBad == <<"a", " ", "!">>

\* C6: the batch install of a good specifier and one with no package name,
\* in a project with its environment and manifest, ends with the bad one
\* reported as invalid, the good one reported as installed and in the
\* manifest, and no entry for the bad one.
C6_PartialFailure ==
    (/\ phase = "exited" /\ cmd = "install" /\ arg = GoodAndBad
     /\ VenvPath \in before.disk /\ ManifestPath \in before.disk) =>
        /\ lastError.tag = "Invalid package name"
        /\ \E k \in DOMAIN reported : reported[k].pkg = <<"a">>
        /\ <<"a">> \in EntryNames(Manifest)
        /\ <<"!">> \notin EntryNames(Manifest)

\* The paths this init brought into existence that are still there.
Residue == created \cap disk

\* C7: when init has failed, whatever step failed, none of the paths it
\* created is left on disk.
C7_AllOrNothing ==
    (phase = "exited" /\ cmd = "init" /\ exitCode # 0) => Residue = {}

\* C8: when every template file was copied and the creation of the
\* environment then failed, nothing init created is left once it has ended.
C8_RollbackAfterVenvFailure ==
    (phase = "exited" /\ cmd = "init" /\ failedStep = "venv") => Residue = {}

\* C8 happens: init ended after the environment step failed, having created
\* template files and a part of the environment.
C8_Witness ==
    /\ phase = "exited" /\ cmd = "init" /\ failedStep = "venv"
    /\ ".gitignore" \in created
    /\ VenvPath \in created

\* The last two commands that ended, oldest first.
LastTwo == SubSeq(history, Len(history) - 1, Len(history))

\* The last two commands were installs of one package each, with the same
\* name, and both ran to completion.
InstalledTwice ==
    /\ phase = "exited" /\ Len(history) >= 2
    /\ \A k \in 1..2 :
          /\ LastTwo[k].cmd = "install"
          /\ LastTwo[k].exitCode = 0
          /\ Len(LastTwo[k].reported) = 1
    /\ extractPackageName(Some(LastTwo[1].reported[1].pkg))
          = extractPackageName(Some(LastTwo[2].reported[1].pkg))

C10_AlreadyAbsent ==
    (/\ phase = "exited" /\ cmd = "uninstall" /\ Len(tasks) = 1
     /\ lastError.tag = "no package found") =>
        /\ exitCode = 0
        /\ file = before.file

\* C11: after a batch uninstall of two or more distinct names, all of them
\* installed, in which every item succeeded, the manifest has no entry for
\* any name of the batch.
C11_BatchUninstallRemovesAll ==
    (/\ BatchSucceeded("uninstall")
     /\ TaskNames \subseteq {p.name : p \in before.env}) =>
        TaskNames \cap EntryNames(Manifest) = {}

\* The names whose install invocation the process saw exit with a non-zero
\* code.
InstallFailed ==
    {children[k].name : k \in {j \in DOMAIN children :
        /\ children[j].tool = "pip3 install"
        /\ children[j].exited /\ children[j].code # 0}}

\* The names the summary of the command reports.
ReportedNames ==
    {extractPackageName(Some(reported[k].pkg)).val : k \in DOMAIN reported}

\* The manifest entries with this name.
EntriesOf(deps, name) == {r \in Entries(deps) : r.name = name}

\* C12: when the tool's install invocation for a package exited with a
\* non-zero code, the command has ended with a diagnostic, does not report
\* the package as installed or updated, and the manifest entries of its name
\* are what they were.
C12_ToolErrorsSurfaced ==
    (phase = "exited" /\ cmd \in {"install", "update"}) =>
        \A n \in InstallFailed :
            /\ lastError # NoDiag
            /\ n \notin ReportedNames
            /\ EntriesOf(Manifest, n) = EntriesOf(ManifestBefore, n)

\* The command failed: the environment was missing, a child the process
\* awaited exited with a non-zero code, or uninstall got no package.
CommandFailed ==
    \/ VenvPath \notin before.disk
    \/ \E k \in DOMAIN children : children[k].exited /\ children[k].code # 0
    \/ cmd = "uninstall" /\ arg = NoArg

\* C13: a command that failed ends with a non-zero exit code; the exit
\* code is 0 only when the command succeeded.
C13_ExitCodeReflectsOutcome ==
    (/\ phase = "exited" /\ cmd \in {"install", "uninstall", "update"}
     /\ CommandFailed) => exitCode # 0

\* The children a command can be handed, as they exit.
SampleChildren ==
    {Child(code, out, err) :
        code \in {0, 1, 2},
        out \in {<<>>, <<"O", "K">>},
        err \in {<<>>, ErrorText}}

\* C14: without the environment marker withVenv returns 1 and withVenvGet
\* returns an error, whatever the command, and a process that started
\* without the marker has spawned no child.
C14_AdapterPrecondition ==
    /\ ~venvExists =>
          \A child \in SampleChildren :
              /\ withVenv(child) = 1
              /\ ~withVenvGet(child).ok
              /\ withVenvGet(child).val = NoVenvText
    /\ (phase # "idle" /\ VenvPath \notin before.disk) => children = <<>>

\* C14 happens: update and install ran without the marker and ended.
C14_Witness ==
    /\ phase = "exited" /\ ~venvExists
    /\ Len(history) = 2
    /\ history[1].cmd = "update" /\ history[2].cmd = "install"

\* t is s without its leading and trailing whitespace.
IsTrimOf(t, s) ==
    /\ t # <<>> => (t[1] \notin Whitespace /\ t[Len(t)] \notin Whitespace)
    /\ \E i \in 0..Len(s) :
          /\ i + Len(t) <= Len(s)
          /\ SubSeq(s, i + 1, i + Len(t)) = t
          /\ \A k \in (1..i) \cup ((i + Len(t) + 1)..Len(s)) : s[k] \in Whitespace

\* C15: execShellGet returns ok exactly when the child exited with code 0;
\* the ok value is the trimmed stdout; the error message is the trimmed
\* stderr, or, when that is empty, a message that ends with the exit code.
C15_CaptureResult ==
    (fn = "execShellGet" /\ returned) =>
        /\ output.ok <=> input.code = 0
        /\ output.ok => IsTrimOf(output.val, input.stdout)
        /\ ~output.ok =>
              IF \E k \in DOMAIN input.stderr : input.stderr[k] \notin Whitespace
              THEN IsTrimOf(output.val, input.stderr)
              ELSE /\ output.val # <<>>
                   /\ DigitsToNat(SubSeq(output.val,
                          Len(output.val) - Len(NatToDigits(input.code)) + 1,
                          Len(output.val))) = input.code

\* C15 happens: a child that failed with nothing but whitespace on stderr.
C15_Witness ==
    /\ fn = "execShellGet" /\ returned
    /\ input.code = 127 /\ input.stderr = <<"\n">>
    /\ ~output.ok

\* C16: an install of one package into a project that has its environment
\* and no manifest file is not ended by its manifest read: the read returns
\* the empty sequence, and the process ends for another reason or with a
\* manifest that holds the package.
C16_ReadIsTotal ==
    (/\ phase = "exited" /\ cmd = "install" /\ Len(tasks) = 1
     /\ VenvPath \in before.disk /\ ManifestPath \notin before.disk
     /\ nReads > 0) =>
        /\ lastError.tag # "ENOENT"
        /\ exitCode = 0 => tasks[1].name \in EntryNames(Manifest)

\* A line of the form name==version with a name and a valid version.
WellFormedLine(line) ==
    LET i == IndexFrom(line, EqEq, 1)
    IN  i > 1 /\ SemVerParse(Drop(line, i + 1)).ok

\* C17: the manifest read returns one entry for every well-formed line of
\* the file, in file order, and nothing for a blank line, a line without
\* "==", a line with an empty half or a line with an invalid version.
C17_ReadSkipsBadLines ==
    (fn = "getExistingDependencies" /\ returned) =>
        LET good == SelectSeq(SplitOn(file, NL), WellFormedLine)
        IN  /\ Len(output) = Len(good)
            /\ \A i \in 1..Len(good) :
                  /\ StartsWith(good[i], output[i].name \o EqEq)
                  /\ SemVerParse(Drop(good[i], Len(output[i].name) + 2))
                        = Ok(output[i].version)

\* C17 happens: a file with a bad line between two good ones was read.
C17_Witness ==
    /\ fn = "getExistingDependencies" /\ returned
    /\ file = <<"a", "=", "=", "1", ".", "0", ".", "0", "\n", "b", "=", "=", "1", ".", "x", "\n", "b", "=", "=", "2", ".", "1", ".", "0", "\n">>
    /\ Len(output) = 2

\* The entries without their build metadata.
Triples(deps) ==
    {[name |-> r.name, major |-> r.version.major, minor |-> r.version.minor,
      patch |-> r.version.patch] : r \in Entries(deps)}

\* C18 as stated: reading what was written returns the set of entries that
\* was written.
C18_RoundTripExact ==
    (fn = "writeDependencies" /\ returned) =>
        Entries(getExistingDependencies(file)) = Entries(input)

\* C18: reading what was written returns the entries that were written, by
\* name and major.minor.patch, and none of them has build metadata.
C18_RoundTrip ==
    (fn = "writeDependencies" /\ returned) =>
        LET read == getExistingDependencies(file)
        IN  /\ Triples(read) = Triples(input)
            /\ Len(read) = Len(input)
            /\ \A r \in Entries(read) : r.version.metadata = <<>>

\* C18 happens: two entries were written, one with build metadata.
C18_Witness ==
    /\ fn = "writeDependencies" /\ returned
    /\ Len(input) = 2
    /\ input[1].version.metadata # <<>>

\* The line of an entry.
LineOf(r) == r.name \o EqEq \o SemVerToString(r.version)

\* C19: after a write the file is the lines of the entries, in their
\* order, with a newline after the last, and nothing else.
C19_FullOverwrite ==
    (fn = "writeDependencies" /\ returned) =>
        /\ fileExists
        /\ file = JoinWith([i \in 1..Len(input) |-> LineOf(input[i])], NL) \o NL

\* C19 happens: two entries were written over a longer file.
C19_Witness ==
    /\ fn = "writeDependencies" /\ returned
    /\ Len(input) = 2
    /\ Len(before.file) > Len(file)

\* C20: extractPackageName of a source-URL specifier is the repository
\* name, without the git+ prefix, the .git suffix and the @ref.
C20_UrlRepoName ==
    (fn = "extractPackageName" /\ returned) =>
        \A gitPlus \in {<<>>, <<"g", "i", "t", "+">>}, scheme \in {<<"h", "t", "t", "p">>, <<"h", "t", "t", "p", "s">>}, repo \in RepoNames,
           dotGit \in {<<>>, <<".", "g", "i", "t">>}, ref \in {<<>>, <<"@", "m", "a", "i", "n">>} :
            input = Some(UrlSpec(gitPlus, scheme, repo, dotGit, ref)) => output = Some(repo)

\* C21: extractPackageName of @scope/name, with or without @version, is
\* @scope/name, the name kept whole across its hyphens and dots.
C21_ScopedName ==
    (fn = "extractPackageName" /\ returned) =>
        \A name \in {<<"p", "k", "g">>, <<"m", "y", "-", "p", "k", "g", ".", "x">>}, tail \in {<<>>, <<"@", "1", ".", "0", ".", "0">>} :
            input = Some(<<"@", "s", "c", "o", "p", "e", "/">> \o name \o tail) => output = Some(<<"@", "s", "c", "o", "p", "e", "/">> \o name)

\* C21 happens: a scoped name with a hyphen, a dot and a version.
C21_Witness ==
    /\ fn = "extractPackageName" /\ returned
    /\ input = Some(<<"@", "s", "c", "o", "p", "e", "/", "m", "y", "-", "p", "k", "g", ".", "x", "@", "1", ".", "0", ".", "0">>)

\* The characters that end the name of a plain or pinned specifier.
NameEnders == {"@", " ", "=", "<", ">", "~", "^"}

\* C22: extractPackageName of a name followed by nothing or by a tail that
\* starts with one of @, whitespace, =, <, >, ~, ^ is the name: the longest
\* prefix of word characters, dots and hyphens.
C22_PlainName ==
    (fn = "extractPackageName" /\ returned) =>
        \A name \in {<<"f", "l", "a", "s", "k">>, <<"m", "y", "-", "p", "k", "g">>, <<"a", ".", "b">>},
           tail \in {t \in NameTails : t = <<>> \/ Head(t) \in NameEnders} :
            input = Some(name \o tail) =>
                /\ output = Some(name)
                /\ \A k \in 1..Len(name) : name[k] \in NameChars

\* C22 happens: each of the characters that end a name was met.
C22_Witness ==
    /\ fn = "extractPackageName" /\ returned
    /\ input = Some(<<"m", "y", "-", "p", "k", "g", "^", "1">>)
    /\ \A c \in NameEnders : \E t \in NameTails : t # <<>> /\ Head(t) = c

\* The arguments with no package name: null or undefined, the empty
\* string, whitespace, and strings of none of the three forms.
NoNameSpecs ==
    {None, Some(<<>>), Some(<<" ", " ">>)}
        \cup {Some(name \o tail) : name \in {<<"f", "l", "a", "s", "k">>, <<"m", "y", "-", "p", "k", "g">>, <<"a", ".", "b">>}, tail \in {<<"!">>, <<"/", "x">>}}
        \cup {Some(<<"@", "s", "c", "o", "p", "e">>), Some(<<"@", "/", "x">>), Some(<<"@", "s", "c", "o", "p", "e", "/", "p", "k", "g", "!">>), Some(<<"@", "s", "c", "o", "p", "e", "/", "m", "y", "-", "p", "k", "g", ".", "x", "!">>)}

\* C23: extractPackageName returns null for null or undefined, for the
\* empty string, for whitespace and for a string of none of the forms.
C23_NullForNoName ==
    (fn = "extractPackageName" /\ returned /\ input \in NoNameSpecs) => output = None

\* C23 happens: a name followed by a character no form allows.
C23_Witness ==
    /\ fn = "extractPackageName" /\ returned
    /\ input = Some(<<"f", "l", "a", "s", "k", "!">>)

\* The pieces install and uninstall make tasks of: pkgs.split(" ").
RECURSIVE Pieces(_)
Pieces(words) ==
    IF words = <<>> THEN <<>>
    ELSE SplitOn(Head(words), <<" ">>) \o Pieces(Tail(words))

\* C24: for a command line of install or uninstall with two or more
\* package words, the argument the command gets splits into every package
\* of the command line: each becomes a task.
C24_EveryArgumentProcessed ==
    (fn = "parseInput" /\ returned /\ Len(input) >= 3) =>
        /\ output.arg.ok
        /\ SplitOn(output.arg.val, <<" ">>) = Pieces(Tail(input))

\* C25: install with no package argument runs `pip3 install -r
\* requirements.txt` as its only child when the environment is there, and
\* from its start to its exit the manifest file is what it was: never
\* written, created or removed.
C25_InstallAllKeepsManifest ==
    (phase \in {"running", "exited"} /\ cmd = "install" /\ arg = NoArg) =>
        /\ file = before.file
        /\ fileExists <=> ManifestPath \in before.disk
        /\ nWrites = 0
        /\ VenvPath \in before.disk =>
              /\ Len(children) = 1
              /\ children[1].tool = "pip3 install -r"
              /\ phase = "exited" => children[1].exited

\* C25 happens: the install from a manifest with entries succeeded and
\* changed the environment.
C25_Witness ==
    /\ phase = "exited" /\ cmd = "install" /\ arg = NoArg
    /\ Len(children) = 1 /\ children[1].exited /\ children[1].code = 0
    /\ Manifest # <<>>
    /\ env # before.env

\* The steps of init in their order, and the path each exec step creates.
StepOrder == <<"copy", "venv", "manifest", "main", "git", "done">>

StepPaths == <<VenvDir, ManifestPath, "main.py", ".git">>

\* The rollback list of an init that has started every step.
FullLog == Templates \o StepPaths

\* The steps after the k-th.
StepsAfter(k) == {StepOrder[j] : j \in (k + 1)..Len(StepOrder)}

\* The step that creates the path has succeeded: its copy is done, or
\* init is at a later step or failed at a later step.
StepSucceeded(path) ==
    IF \E i \in DOMAIN Templates : Templates[i] = path
    THEN \A i \in DOMAIN Templates : Templates[i] = path => copies[i] = "ok"
    ELSE \E k \in DOMAIN StepPaths :
            /\ StepPaths[k] = path
            /\ initPc \in StepsAfter(k + 1) \/ failedStep \in StepsAfter(k + 1)

\* C26: while and after init runs, every path on the rollback list is the
\* path of a step that has already succeeded.
C26_LogHoldsOnlyCreated ==
    cmd = "init" => \A k \in DOMAIN added : StepSucceeded(added[k])

\* The step that puts the path on the list.
StepOf(path) ==
    IF \E i \in DOMAIN Templates : Templates[i] = path
    THEN "copy"
    ELSE StepOrder[1 + CHOOSE k \in DOMAIN StepPaths : StepPaths[k] = path]

\* C27: the steps are started in the fixed order and none twice (the list
\* of the paths of the started steps is a prefix of the full list); a step
\* is under way only when every copy is done and the paths of all earlier
\* steps are there; init is done only when all of them are; after a failure
\* the last step started is the one that failed.
C27_StepOrder ==
    cmd = "init" =>
        /\ Len(added) <= Len(FullLog)
        /\ added = SubSeq(FullLog, 1, Len(added))
        /\ Len(added) > Len(Templates) => \A i \in DOMAIN copies : copies[i] = "ok"
        /\ initPc \in {"venv", "manifest", "main", "git"} =>
              /\ StepOf(added[Len(added)]) = initPc
              /\ \A j \in 1..(Len(added) - 1) : added[j] \in disk
        /\ initPc = "done" =>
              /\ added = FullLog
              /\ \A j \in DOMAIN added : added[j] \in disk
        /\ failedStep # "none" => StepOf(added[Len(added)]) = failedStep
        /\ failedStep = "none" <=> initPc \in {"copy", "venv", "manifest", "main", "git", "done"}

\* C27 happens: the entry-point step failed after three steps succeeded,
\* and the version-control step was never started.
C27_Witness ==
    /\ cmd = "init" /\ phase = "exited"
    /\ failedStep = "main"
    /\ added = SubSeq(FullLog, 1, Len(FullLog) - 1)
    /\ ".git" \notin created

\* C28: a failed init that has ended has removed every logged path and
\* exited with the code of the failing step.
C28_RollbackComplete ==
    (cmd = "init" /\ phase = "exited" /\ failedStep # "none") =>
        /\ \A k \in DOMAIN added : added[k] \notin disk
        /\ exitCode = rbCode

\* C29: after a failed init has ended, every path that was there before
\* init started is still there.
C29_RollbackKeepsExisting ==
    (cmd = "init" /\ phase = "exited" /\ failedStep # "none") =>
        before.disk \subseteq disk

\* A command of one package ended with the package succeeding.
SingleDone(c) ==
    /\ phase = "exited" /\ cmd = c /\ exitCode = 0
    /\ Len(tasks) = 1

\* The entries of other names, in their order.
Others(deps, n) == SelectSeq(deps, LAMBDA r : r.name # n)

\* The entry the install of n reported.
NewEntry(n) == Requirement(n, SemVerParse(reported[1].version).val)

\* An entry's name and major.minor.patch.
Core(r) ==
    [name |-> r.name, major |-> r.version.major, minor |-> r.version.minor,
     patch |-> r.version.patch]

CoreSeq(deps) == [i \in DOMAIN deps |-> Core(deps[i])]

\* C30 as stated: after an install of the single name n the manifest is
\* its former entries of other names, unchanged and in their order, followed
\* by the new entry for n; after an uninstall of n it is its former entries
\* of other names.
C30_FrameExact ==
    /\ SingleDone("install") =>
          Manifest = Others(ManifestBefore, tasks[1].name) \o <<NewEntry(tasks[1].name)>>
    /\ SingleDone("uninstall") =>
          Manifest = Others(ManifestBefore, tasks[1].name)

\* C30: after an install of the single name n the manifest is its former
\* entries of other names, with their major.minor.patch and in their order,
\* followed by the new entry for n; after an uninstall of n it is its
\* former entries of other names, with their major.minor.patch and in their
\* order.
C30_Frame ==
    /\ SingleDone("install") =>
          CoreSeq(Manifest)
              = CoreSeq(Others(ManifestBefore, tasks[1].name) \o <<NewEntry(tasks[1].name)>>)
    /\ SingleDone("uninstall") =>
          CoreSeq(Manifest) = CoreSeq(Others(ManifestBefore, tasks[1].name))

\* C30 happens: an install replaced the entry of its name in a manifest that
\* has an entry of another name before it.
C30_Witness ==
    /\ SingleDone("install")
    /\ Len(ManifestBefore) = 2
    /\ ManifestBefore[1].name = tasks[1].name
    /\ Len(Manifest) = 2
    /\ Manifest[2].name = tasks[1].name
    /\ Manifest[2].version # ManifestBefore[1].version

\* The names of the children of this tool that exited with 0 before the
\* process ended.
ToolSucceeded(tool) ==
    {children[k].name : k \in {j \in DOMAIN children :
        /\ children[j].tool = tool
        /\ children[j].exited /\ children[j].code = 0}}

\* C31: when an install or uninstall batch has ended, every package whose
\* `pip3 install` succeeded during the batch has a manifest entry, and every
\* installed package whose `pip3 uninstall` succeeded during the batch has
\* none.
C31_ManifestAgreesWithEnvironment ==
    (phase = "exited" /\ cmd \in {"install", "uninstall"} /\ arg # NoArg) =>
        /\ \A n \in ToolSucceeded("pip3 install") : n \in EntryNames(Manifest)
        /\ \A n \in ToolSucceeded("pip3 uninstall") :
              n \in {p.name : p \in before.env} => n \notin EntryNames(Manifest)

\* The pieces of the argument that have no package name.
InvalidPieces(a) == {i \in DOMAIN Names(a) : ~Names(a)[i].ok}

\* C32: an install whose argument has a piece with no package name, at any
\* position, has exited with code 1, has spawned no child and has not
\* written the manifest.
C32_InvalidSpecifierStopsInstall ==
    (phase # "idle" /\ cmd = "install" /\ arg # NoArg /\ InvalidPieces(arg) # {}) =>
        /\ phase = "exited"
        /\ exitCode = 1
        /\ children = <<>>
        /\ nWrites = 0
        /\ file = before.file
        /\ \A i \in DOMAIN tasks : tasks[i].pc = "read"

\* C32 happens: the piece with no name is the second of two, the first has
\* a name, and the environment and the manifest file are there.
C32_Witness ==
    /\ phase = "exited" /\ cmd = "install"
    /\ arg = <<"a", " ", "!">>
    /\ venvExists /\ fileExists
    /\ Len(tasks) = 1

\* C33: a command that started without the environment marker has spawned
\* no child and has left the manifest file as it was: not written, created
\* or removed.
C33_NoChangeWithoutEnvironment ==
    (phase # "idle" /\ VenvPath \notin before.disk
        /\ cmd \in {"install", "uninstall", "list", "update"}) =>
        /\ children = <<>>
        /\ nWrites = 0
        /\ file = before.file
        /\ fileExists <=> ManifestPath \in before.disk

\* C33 happens: an install of a package read the manifest, found no
\* environment and ended, after a list that ended the same way.
C33_Witness ==
    /\ phase = "exited" /\ cmd = "install" /\ ~venvExists
    /\ Len(tasks) = 1 /\ nReads = 1 /\ fileExists
    /\ lastError.text = NoVenvText
    /\ Len(history) = 2 /\ history[1].cmd = "list"

\* The children of update's install loop.
UpdateInstalls == {k \in DOMAIN children : children[k].tool = "pip3 install"}

\* C34: when update has printed its summary, there is one line per
\* outdated package and the install of every one of them has been spawned
\* and has exited.
C34_UpdateSummaryAfterInstalls ==
    (cmd = "update" /\ phase = "exited" /\ reported # <<>>) =>
        /\ Len(reported) = Len(packages)
        /\ \A j \in DOMAIN packages :
              /\ j + 1 \in UpdateInstalls
              /\ children[j + 1].name = packages[j].name
              /\ children[j + 1].exited

\* C34 happens: the summary has two packages, and the install of one of
\* them failed.
C34_Witness ==
    /\ cmd = "update" /\ phase = "exited"
    /\ Len(reported) = 2
    /\ \E k \in UpdateInstalls : children[k].code # 0

\* C35: from the start of an update or a list to its end the manifest file
\* is what it was: never written, created or removed.
C35_UpdateAndListKeepManifest ==
    (cmd \in {"update", "list"} /\ phase # "idle") =>
        /\ file = before.file
        /\ nWrites = 0
        /\ fileExists <=> ManifestPath \in before.disk

\* C35 happens: after a list that printed its table, an update installed
\* the latest version of a package whose manifest entry has the former one.
C35_Witness ==
    /\ cmd = "update" /\ phase = "exited" /\ reported # <<>>
    /\ Len(history) = 2 /\ history[1].cmd = "list" /\ history[1].exitCode = 0
    /\ \E r \in Entries(Manifest) :
          /\ SemVerToString(r.version) = V100
          /\ InstalledVersion(r.name) = Latest

\* The diagnostics of a data line update cannot parse.
LineDiags == {"Invalid line", "Invalid semver (current)", "Invalid semver (latest)"}

\* C36: an update that has spawned an install has parsed every data line:
\* its packages are all the outdated packages, none is the tool itself; an
\* update that ended on a line it could not parse, or whose report had the
\* row of a package with an invalid version, exited with 1 and spawned no
\* install.
C36_UpdateParsesFirst ==
    (cmd = "update" /\ phase # "idle") =>
        /\ UpdateInstalls # {} =>
              /\ {packages[j].name : j \in DOMAIN packages}
                    = {p.name : p \in {q \in before.env : q.version # Latest}}
              /\ \A k \in UpdateInstalls : children[k].name # <<"p", "i", "p">>
        /\ (phase = "exited" /\ lastError.tag \in LineDiags) =>
              exitCode = 1 /\ UpdateInstalls = {}
        /\ (children # <<>> /\ children[1].exited /\ children[1].code = 0
               /\ \E p \in before.env : p.version = V10) =>
              phase = "exited" /\ exitCode = 1 /\ UpdateInstalls = {}

\* C36 happens: the report has a valid row before the row with the invalid
\* version, and update exited on the latter.
C36_Witness ==
    /\ cmd = "update" /\ phase = "exited"
    /\ lastError.tag = "Invalid semver (current)"
    /\ \E p \in before.env : p.name = <<"a">> /\ p.version = V100
    /\ \E p \in before.env : p.name = <<"b">> /\ p.version = V10

\* The installed packages in the order of the listing.
Installed == SelectSeq(PackageOrder, LAMBDA n : InstalledVersion(n) # NoVersion)

\* C37: a list whose `pip3 list` succeeded has exited with 1 and printed no
\* table when an installed package has a version that is not a semantic
\* version; otherwise it has exited with 0 and its table has one row per
\* installed package, in the order of the listing, with the package's name
\* and version: no row for the two header lines, none for `pip`.
C37_ListIsStrict ==
    (cmd = "list" /\ phase = "exited" /\ children # <<>> /\ children[1].code = 0) =>
        IF \E p \in env : ~SemVerParse(p.version).ok
        THEN /\ exitCode = 1
             /\ lastError.tag = "Invalid semver"
             /\ reported = <<>>
        ELSE /\ exitCode = 0
             /\ lastError = NoDiag
             /\ reported = [j \in DOMAIN Installed |->
                               [pkg |-> Installed[j], version |-> InstalledVersion(Installed[j])]]

\* C37 happens: the row of a package with a valid version comes before the
\* row with the invalid one, and list exited on the latter.
C37_Witness ==
    /\ cmd = "list" /\ phase = "exited" /\ exitCode = 1
    /\ lastError = Diag("Invalid semver", V10)
    /\ InstalledVersion(<<"a">>) = V100

\* C38: a run that has ended exited with 1 and spawned no child when its
\* script, main.py when none is given, was not there or the environment was
\* not; otherwise it spawned one child and exited with the child's code.  A
\* run that has not ended found its script and the environment.
C38_RunExitCode ==
    (cmd = "run" /\ phase # "idle") =>
        IF ScriptFile(arg) \notin before.disk \/ VenvPath \notin before.disk
        THEN /\ phase = "exited"
             /\ exitCode = 1
             /\ children = <<>>
        ELSE /\ Len(children) = 1
             /\ children[1].tool = "python3"
             /\ phase = "exited" => (children[1].exited /\ exitCode = children[1].code)

\* C38 happens: run with no argument found main.py and the environment,
\* and the script exited with 2.
C38_Witness ==
    /\ cmd = "run" /\ phase = "exited"
    /\ arg = NoArg
    /\ Len(children) = 1 /\ children[1].code = 2
    /\ exitCode = 2

\* init is over: every step succeeded and init returned, or a step failed,
\* rollback was called and the process ended with a code that is not 0.
InitTerminal ==
    /\ phase = "exited"
    /\ \/ initPc = "done" /\ failedStep = "none" /\ exitCode = 0
       \/ initPc \in {"rolledBack", "crashed"} /\ failedStep # "none" /\ exitCode # 0

\* C39: when every copy settles, every child exits and every removal
\* settles, an init that has started ends: with all its steps done, or
\* after a failed step and the rollback, with an exit code that is not 0.
C39_InitTerminates == (cmd = "init") ~> InitTerminal

\* C39 happens: the last step failed with code 2 and the rollback removed
\* every path of the list.
C39_Witness ==
    /\ InitTerminal
    /\ initPc = "rolledBack" /\ failedStep = "git" /\ exitCode = 2

====
